---------------------------- MODULE Spec2Model ----------------------------
(***************************************************************************)
(* Model of the retrieval-and-ranking engine of the Agnos health forum     *)
(* assistant (src/src/rag_system.py, class SimpleAgnosHealthRAG).          *)
(*                                                                         *)
(* Text is modelled as a sequence of tokens.  A token is the smallest unit *)
(* any pattern of the source is made of, so Python's substring test        *)
(* `pattern in text` is the contiguous-subsequence test Contains.          *)
(* Scores are exact rationals [num, den]; the source's floats 0.5, 0.3,    *)
(* 0.1 and 3.0 are 5/10, 3/10, 1/10 and 30/10.                             *)
(***************************************************************************)
EXTENDS Integers, Sequences, FiniteSets, TLC

VARIABLES
    data_file,      \* the corpus file: [exists, lines]
    api_key,        \* TRUE iff an OpenAI API key is configured
    snapshot,       \* ./data/vector_store on disk: [state: "none" | "ok" | "corrupt", docs]
    similarity,     \* the embedding's similarity order of the index: [rev, rot]
    engine,         \* the engine object: "none" | "constructed" | "failed" (constructor raised)
    vector_store,   \* self.vector_store: [set, docs]; set = FALSE is None
    built_from,     \* last create_vector_store: "none" | "loaded" | "created" | "raised"
    init_outcome,   \* initialize_simple_rag_system: "none" | "returned" | "raised"
    chat_history,   \* self.chat_history
    call,           \* the last call of query: the index it ran on, what its collaborators did
    last_docs,      \* query's local relevant_docs in the last call
    result,         \* what the last call of query returned
    nqueries,       \* number of query calls made (bounds the model)
    sc_pc,          \* scoring probe: "idle" | "input" | "extracted" | "scored"
    sc_question,    \* scoring probe: the question
    sc_doc,         \* scoring probe: the document
    sc_symptoms,    \* scoring probe: _extract_symptom_keywords(question)
    sc_score,       \* scoring probe: _calculate_symptom_relevance(doc, symptoms)
    site,           \* the forum site: the listing pages and thread details it serves
    max_threads,    \* self.max_threads of the scraper
    delay,          \* self.delay of the scraper
    output_file,    \* the scraper's output file: [exists, lines]
    existing_data,  \* self.existing_data: the fingerprints it holds (the dict's keys)
    existing_thread_ids, \* self.existing_thread_ids
    sop,            \* the last scraper operation: what it was called on and what it did
    nops,           \* number of scraper operations made (bounds the model)
    hp              \* function probe: [pc, a, b, hash_a, hash_b, hash_a_again] for
                    \* the fingerprint, [pc, text, chunk_size, chunks] for chunk_text

engine_vars == <<data_file, api_key, snapshot, similarity, engine, vector_store,
                 built_from, init_outcome, chat_history, call, last_docs, result,
                 nqueries>>
score_vars == <<sc_pc, sc_question, sc_doc, sc_symptoms, sc_score>>
scraper_vars == <<site, max_threads, delay, output_file, existing_data,
                  existing_thread_ids, sop, nops, hp>>
vars == <<engine_vars, score_vars, scraper_vars>>

---------------------------------------------------------------------------
(* Bounds of the model *)

\* longest document body (in tokens) the scoring probe draws
MaxLen == 2
\* likes values drawn by the scoring probe range over -1 .. MaxLikes
MaxLikes == 6
\* number of query calls in one behaviour
MaxQueries == 1
\* the number of query calls of a chat session
MaxChat == 11
\* the similarity order starts at one of the first MaxRot + 1 positions of the index
MaxRot == 2

---------------------------------------------------------------------------
(* Generic helpers *)

Min(a, b) == IF a <= b THEN a ELSE b

\* all sequences over S of length at most n
SeqsUpTo(S, n) == UNION {[1..k -> S] : k \in 0..n}

\* Python's seq[:n]
Take(s, n) == SubSeq(s, 1, Min(n, Len(s)))

\* Python's `pat in text` on token sequences
Contains(text, pat) ==
    \E i \in 0..(Len(text) - Len(pat)) : SubSeq(text, i + 1, i + Len(pat)) = pat

\* Python's dict.get(key, default)
Get(m, k, d) == IF k \in DOMAIN m THEN m[k] ELSE d

\* an empty dict
EmptyDict == [k \in {} |-> ""]

\* str.lower() on one token: only Latin tokens have case
LowerTok(t) ==
    CASE t = "Depression" -> "depression"
      [] t = "Stress" -> "stress"
      [] OTHER -> t

\* str.lower()
Lower(text) == [i \in 1..Len(text) |-> LowerTok(text[i])]

---------------------------------------------------------------------------
(* Symptom scoring: _extract_symptom_keywords, _calculate_symptom_relevance *)

\* symptom_patterns, in source order, restricted to the patterns made of the
\* tokens of the model.  Thai tokens are written in Latin transliteration:
\*   puad = 'ปวด' (pain), hua = 'หัว' (head), khriat = 'เครียด' (stress),
\*   khai = 'ไข้' (fever); 'ปวดหัว' (headache) is the token pair puad hua.
symptom_patterns ==
    << <<"puad">>, <<"khriat">>, <<"puad", "hua">>, <<"khai">> >>

RECURSIVE FilterSeq(_, _)
\* the subsequence of s whose elements are in the set Keep, in order
FilterSeq(s, Keep) ==
    IF s = <<>> THEN <<>>
    ELSE (IF Head(s) \in Keep THEN <<Head(s)>> ELSE <<>>) \o FilterSeq(Tail(s), Keep)

ExtractSymptomKeywords(question) ==
    LET question_lower == Lower(question)
    IN  FilterSeq(symptom_patterns,
                  {p \in {symptom_patterns[i] : i \in 1..Len(symptom_patterns)} :
                      Contains(question_lower, p)})

\* sum(1 for symptom in user_symptoms if symptom in text)
CountMatches(user_symptoms, text) ==
    Cardinality({i \in 1..Len(user_symptoms) : Contains(text, user_symptoms[i])})

\* mutant: the final min(relevance_score, 3.0) is dropped
CalculateSymptomRelevance_NoCap(doc, user_symptoms) ==
    IF user_symptoms = <<>> THEN [num |-> 5, den |-> 10]
    ELSE
      LET n == Len(user_symptoms)
          den == 10 * n
          c == CountMatches(user_symptoms, Lower(doc.page_content))
          t == CountMatches(user_symptoms, Lower(Get(doc.metadata, "title", <<>>)))
          likes == Get(doc.metadata, "likes", 0)
      IN  [num |-> 10 * (c + 2 * t)
                   + (IF Get(doc.metadata, "content_type", "none") = "doctor_answer"
                      THEN 3 * n ELSE 0)
                   + (IF likes > 0 THEN Min(likes * n, 5 * n) ELSE 0),
           den |-> den]

\* mutant: a title match weighs as much as a body match
CalculateSymptomRelevance_TitleWeight(doc, user_symptoms) ==
    IF user_symptoms = <<>> THEN [num |-> 5, den |-> 10]
    ELSE
      LET n == Len(user_symptoms)
          den == 10 * n
          c == CountMatches(user_symptoms, Lower(doc.page_content))
          t == CountMatches(user_symptoms, Lower(Get(doc.metadata, "title", <<>>)))
          likes == Get(doc.metadata, "likes", 0)
      IN  [num |-> Min(10 * (c + t)
                       + (IF Get(doc.metadata, "content_type", "none") = "doctor_answer"
                          THEN 3 * n ELSE 0)
                       + (IF likes > 0 THEN Min(likes * n, 5 * n) ELSE 0),
                       3 * den),
           den |-> den]

\* _calculate_symptom_relevance: the score as num/den with den = 10 * len(user_symptoms)
\* (den = 10 when there is no symptom)
CalculateSymptomRelevance(doc, user_symptoms) ==
    IF user_symptoms = <<>> THEN [num |-> 5, den |-> 10]      \* return 0.5
    ELSE
      LET n == Len(user_symptoms)
          den == 10 * n
          doc_content == Lower(doc.page_content)
          doc_title == Lower(Get(doc.metadata, "title", <<>>))
          content_matches == CountMatches(user_symptoms, doc_content)
          title_matches == CountMatches(user_symptoms, doc_title)
          \* (content_matches * 1.0) + (title_matches * 2.0), in units of 1/den
          s0 == (content_matches * 1 * den) + (title_matches * 2 * den)
          \* relevance_score / len(user_symptoms)
          s1 == IF n > 0 THEN s0 \div n ELSE s0
          \* += 0.3
          s2 == IF Get(doc.metadata, "content_type", "none") = "doctor_answer"
                THEN s1 + 3 * n ELSE s1
          likes == Get(doc.metadata, "likes", 0)
          \* += min(likes * 0.1, 0.5)
          s3 == IF likes > 0 THEN s2 + Min(likes * n, 5 * n) ELSE s2
      IN  [num |-> Min(s3, 3 * den), den |-> den]             \* min(score, 3.0)

---------------------------------------------------------------------------
(* Text helpers.  A text is a sequence of symbols and each symbol counts   *)
(* as one character: len() is Len, slicing is Take.                        *)

\* n filler characters
Pad(n) == [i \in 1..n |-> "."]

\* a real newline character (the "\n" of the non-raw string literals)
NL == "\n"

Whitespace == {" ", NL}

RECURSIVE LStrip(_)
\* str.lstrip()
LStrip(text) ==
    IF text # <<>> /\ Head(text) \in Whitespace THEN LStrip(Tail(text)) ELSE text

RECURSIVE RStrip(_)
\* str.rstrip()
RStrip(text) ==
    IF text # <<>> /\ text[Len(text)] \in Whitespace
    THEN RStrip(SubSeq(text, 1, Len(text) - 1)) ELSE text

\* str.strip()
Strip(text) == RStrip(LStrip(text))

RECURSIVE FirstIndexFrom(_, _, _)
FirstIndexFrom(text, pat, i) ==
    IF SubSeq(text, i + 1, i + Len(pat)) = pat THEN i
    ELSE FirstIndexFrom(text, pat, i + 1)

\* the least i with text[i+1 .. i+Len(pat)] = pat, for a text that contains pat
FirstIndex(text, pat) == FirstIndexFrom(text, pat, 0)

\* text.split(pat)[0]
BeforeFirst(text, pat) ==
    IF Contains(text, pat) THEN SubSeq(text, 1, FirstIndex(text, pat)) ELSE text

\* text.split(pat, 1)[1], for a text that contains pat
AfterFirst(text, pat) ==
    SubSeq(text, FirstIndex(text, pat) + Len(pat) + 1, Len(text))

\* text.split(pat)[1], for a text that contains pat: what lies between the
\* first occurrence of pat and the next one
SecondPart(text, pat) == BeforeFirst(AfterFirst(text, pat), pat)

\* text.replace(a, b) for a one-symbol pattern a and a one-symbol replacement b
ReplaceSym(text, a, b) == [i \in 1..Len(text) |-> IF text[i] = a THEN b ELSE text[i]]

\* text.split()[0]: the first whitespace-separated word (text is stripped, non-empty)
FirstWord(text) == BeforeFirst(text, <<" ">>)

\* the literal backslash-n the f-strings of load_documents write ("\\n")
BSN == "\\n"
\* "Doctor's Expert Answer"
DEA == "Doctor's Expert Answer"

---------------------------------------------------------------------------
(* load_documents and create_vector_store *)

\* the generic doctor name given to a plain-string comment
GenericDoctor == <<"generic-doctor">>

\* the Document a doctor comment yields, as a sequence of zero or one document
DoctorDoc(data, comment) ==
    IF comment.type \notin {"dict", "str"} THEN <<>>                  \* continue
    ELSE
      LET isdict == comment.type = "dict"
          content_text == IF isdict THEN Get(comment.value, "content_text", <<>>)
                          ELSE comment.value
          doctor_user == IF isdict THEN Get(comment.value, "user", EmptyDict) ELSE EmptyDict
          doctor_name ==
              IF isdict
              THEN Strip(Get(doctor_user, "prefix_name", <<>>) \o <<" ">>
                         \o Get(doctor_user, "firstname", <<>>) \o <<" ">>
                         \o Get(doctor_user, "lastname", <<>>))
              ELSE GenericDoctor
          pub_date == IF isdict THEN Get(comment.value, "pub_date", "") ELSE ""
          likes == IF isdict THEN Get(comment.value, "sum_likes", 0) ELSE 0
      IN  IF content_text # <<>> /\ Len(Strip(content_text)) > 10
          THEN << [page_content |->
                      <<"Patient Question: ">> \o data.title
                      \o <<BSN, BSN, DEA, " ", "(">> \o doctor_name \o <<"):", " ">>
                      \o content_text,
                   metadata |->
                      [title |-> Get(data, "title", <<>>),
                       url |-> Get(data, "url", ""),
                       date |-> pub_date,
                       doctor_name |-> doctor_name,
                       doctor_prefix |-> IF doctor_name # <<>>
                                         THEN FirstWord(doctor_name) ELSE <<>>,
                       likes |-> likes,
                       source |-> "agnos_health_forum",
                       content_type |-> "doctor_answer"]] >>
          ELSE <<>>

RECURSIVE DoctorDocs(_, _)
\* for i, comment in enumerate(doctor_comments): ...
DoctorDocs(data, comments) ==
    IF comments = <<>> THEN <<>>
    ELSE DoctorDoc(data, Head(comments)) \o DoctorDocs(data, Tail(comments))

\* the documents one parsed JSON object yields
RecordDocs(data) ==
    IF Get(data, "content", <<>>) # <<>> /\ Get(data, "title", <<>>) # <<>>
    THEN << [page_content |->
                <<"Title: ">> \o data.title \o <<BSN, BSN, "Content: ">> \o data.content,
             metadata |->
                [title |-> Get(data, "title", <<>>),
                 url |-> Get(data, "url", ""),
                 date |-> Get(data, "date", ""),
                 tags |-> Get(data, "tags", ""),
                 source |-> "agnos_health_forum",
                 content_type |-> "question"]] >>
         \o DoctorDocs(data, Get(data, "doctor_comments", <<>>))
    ELSE <<>>

RECURSIVE LoadLines(_)
\* for line in f: a line is [kind |-> "object", data |-> dict], or
\* [kind |-> "malformed"] (json.loads raises JSONDecodeError: the line is skipped),
\* or [kind |-> "nonobject"] (valid JSON that is no object: data.get raises
\* AttributeError, which the outer except catches: reading stops there)
LoadLines(lines) ==
    IF lines = <<>> THEN <<>>
    ELSE CASE Head(lines).kind = "object" ->
                  RecordDocs(Head(lines).data) \o LoadLines(Tail(lines))
           [] Head(lines).kind = "malformed" -> LoadLines(Tail(lines))
           [] OTHER -> <<>>

\* load_documents: a missing file gives no document
LoadDocuments(file) ==
    IF ~file.exists THEN <<>> ELSE LoadLines(file.lines)

\* Document(page_content="Placeholder", metadata={})
DummyDoc == [page_content |-> <<"Placeholder">>, metadata |-> EmptyDict]

\* chunk_size of the RecursiveCharacterTextSplitter
ChunkSize == 1000

\* text_splitter.split_documents: a document of at most chunk_size characters
\* stays one document; a longer one is cut into windows that share its metadata
RECURSIVE SplitText(_)
SplitText(text) ==
    IF Len(text) <= ChunkSize THEN <<text>>
    ELSE <<Take(text, ChunkSize)>> \o SplitText(SubSeq(text, ChunkSize - 199, Len(text)))

RECURSIVE SplitDocuments(_)
SplitDocuments(docs) ==
    IF docs = <<>> THEN <<>>
    ELSE LET parts == SplitText(Head(docs).page_content)
         IN  [i \in 1..Len(parts) |->
                 [page_content |-> parts[i], metadata |-> Head(docs).metadata]]
             \o SplitDocuments(Tail(docs))

\* mutant: an empty document list is indexed as it is, without the placeholder
NewIndex_NoPlaceholder(documents) == SplitDocuments(documents)

\* lines 139-155 of create_vector_store: the documents the new index holds
NewIndex(documents) ==
    IF documents = <<>> THEN <<DummyDoc>> ELSE SplitDocuments(documents)

---------------------------------------------------------------------------
(* Program constants of the query path *)

\* doctor_answers[:6]
DoctorCap == 6
\* patient_cases[:4]
PatientCap == 4
\* get_symptom_based_matches(question, k=10)
QueryK == 10
\* diseases[:3]
DiseaseCap == 3
\* doctor_history[:3]
HistoryCap == 3
\* relevant_docs[:5]
SourceCap == 5
\* ref_count <= 5
RefCap == 5
\* len(self.chat_history) > 10
HistoryKeep == 10
\* len(doctor_response) > 20
MinResponseLen == 20
\* doctor_response[:300]
ResponseLimit == 300

---------------------------------------------------------------------------
(* get_symptom_based_matches *)

\* a.score > b.score for scores num/den
ScoreGt(a, b) == a.num * b.den > b.num * a.den

RECURSIVE InsertByScore(_, _)
\* insert the pair x = <<doc, score>> into a list sorted by descending score,
\* after every pair whose score is not smaller (the sort is stable)
InsertByScore(sorted, x) ==
    IF sorted = <<>> THEN <<x>>
    ELSE IF ScoreGt(x[2], Head(sorted)[2]) THEN <<x>> \o sorted
         ELSE <<Head(sorted)>> \o InsertByScore(Tail(sorted), x)

RECURSIVE SortByScore(_)
\* pairs.sort(key=lambda x: x[1], reverse=True)
SortByScore(pairs) ==
    IF pairs = <<>> THEN <<>>
    ELSE InsertByScore(SortByScore(SubSeq(pairs, 1, Len(pairs) - 1)), pairs[Len(pairs)])

RECURSIVE SelectSeq2(_, _)
\* the elements of s at the positions in the set pos, in order
SelectSeq2(s, pos) ==
    IF s = <<>> THEN <<>>
    ELSE SelectSeq2(SubSeq(s, 1, Len(s) - 1), pos)
         \o (IF Len(s) \in pos THEN <<s[Len(s)]>> ELSE <<>>)

IsDoctorAnswer(doc) == Get(doc.metadata, "content_type", "none") = "doctor_answer"

\* mutant: the two groups are returned whole, without the [:6] and [:4] slices
GetSymptomBasedMatches_NoCaps(question, initial_docs) ==
    LET kw == ExtractSymptomKeywords(question)
        pairs == [i \in 1..Len(initial_docs) |->
                    <<initial_docs[i], CalculateSymptomRelevance(initial_docs[i], kw)>>]
        d == SortByScore(SelectSeq2(pairs,
                 {i \in 1..Len(pairs) : IsDoctorAnswer(initial_docs[i])}))
        q == SortByScore(SelectSeq2(pairs,
                 {i \in 1..Len(pairs) : ~IsDoctorAnswer(initial_docs[i])}))
    IN  [i \in 1..Len(d) |-> d[i][1]] \o [i \in 1..Len(q) |-> q[i][1]]

\* get_symptom_based_matches, from the documents the retriever returned
GetSymptomBasedMatches(question, initial_docs) ==
    LET symptom_keywords == ExtractSymptomKeywords(question)
        pairs == [i \in 1..Len(initial_docs) |->
                    <<initial_docs[i],
                      CalculateSymptomRelevance(initial_docs[i], symptom_keywords)>>]
        doctor_answers ==
            SortByScore(SelectSeq2(pairs,
                {i \in 1..Len(pairs) : IsDoctorAnswer(initial_docs[i])}))
        patient_cases ==
            SortByScore(SelectSeq2(pairs,
                {i \in 1..Len(pairs) : ~IsDoctorAnswer(initial_docs[i])}))
        top_doctor == Take(doctor_answers, DoctorCap)
        top_patient == Take(patient_cases, PatientCap)
    IN  [i \in 1..Len(top_doctor) |-> top_doctor[i][1]]
        \o [i \in 1..Len(top_patient) |-> top_patient[i][1]]

---------------------------------------------------------------------------
(* extract_disease_predictions *)

\* the elif chain on the title: Thai lexemes in transliteration
\*   suem sao = 'ซึมเศร้า', witokkangwon = 'วิตกกังวล', nonmailap = 'นอนไม่หลับ',
\*   puad prachamduean = 'ปวดประจำเดือน', khriat = 'เครียด', praptua = 'ปรับตัว',
\*   rok = 'โรค'
IsDiseaseTitle(title) ==
    LET title_lower == Lower(title)
    IN  \/ Contains(title_lower, <<"suem", "sao">>) \/ Contains(title_lower, <<"depression">>)
        \/ Contains(title_lower, <<"witokkangwon">>) \/ Contains(title_lower, <<"anxiety">>)
        \/ Contains(title_lower, <<"nonmailap">>) \/ Contains(title_lower, <<"insomnia">>)
        \/ Contains(title_lower, <<"puad", "prachamduean">>)
        \/ Contains(title_lower, <<"menstrual">>) \/ Contains(title_lower, <<"dysmenorrhea">>)
        \/ Contains(title_lower, <<"khriat">>) \/ Contains(title_lower, <<"stress">>)
        \/ Contains(title_lower, <<"praptua">>) \/ Contains(title_lower, <<"adjustment">>)
        \/ Contains(title, <<"rok">>)

RECURSIVE DiseaseLoop(_, _, _)
\* the for loop of extract_disease_predictions: diseases and seen_diseases so far
DiseaseLoop(docs, diseases, seen_diseases) ==
    IF docs = <<>> THEN diseases
    ELSE
      LET doc == Head(docs)
          title == Get(doc.metadata, "title", <<>>)
          url == Get(doc.metadata, "url", "")
      IN  IF title = <<>> \/ url = "" THEN DiseaseLoop(Tail(docs), diseases, seen_diseases)
          ELSE IF IsDiseaseTitle(title) /\ title \notin seen_diseases
               THEN DiseaseLoop(Tail(docs),
                                Append(diseases,
                                       [disease_name |-> title, forum_title |-> title,
                                        forum_url |-> url, relevance_score |-> 1]),
                                seen_diseases \cup {title})
               ELSE DiseaseLoop(Tail(docs), diseases, seen_diseases)

\* mutant: the 3 candidates found last are returned, later ones displace earlier ones
ExtractDiseasePredictions_Latest(relevant_docs) ==
    LET diseases == DiseaseLoop(relevant_docs, <<>>, {})
    IN  SubSeq(diseases, Len(diseases) - Min(DiseaseCap, Len(diseases)) + 1, Len(diseases))

\* return diseases[:3]
ExtractDiseasePredictions(relevant_docs) ==
    Take(DiseaseLoop(relevant_docs, <<>>, {}), DiseaseCap)

---------------------------------------------------------------------------
(* get_historical_doctor_comments *)

\* the doctor's response recovered from a doctor-answer document
DoctorResponse(content) ==
    LET raw == IF Contains(content, <<DEA>>)
               THEN LET after == Strip(SecondPart(content, <<DEA>>))
                    IN  IF after # <<>> /\ Head(after) = "(" /\ Contains(after, <<"):">>)
                        THEN Strip(AfterFirst(after, <<"):">>))
                        ELSE after
               ELSE content
    IN  Strip(ReplaceSym(raw, BSN, " "))

RECURSIVE HistoryLoop(_)
\* the for loop of get_historical_doctor_comments
HistoryLoop(docs) ==
    IF docs = <<>> THEN <<>>
    ELSE
      LET doc == Head(docs)
          doctor_response == DoctorResponse(doc.page_content)
      IN  (IF IsDoctorAnswer(doc) /\ Len(doctor_response) > MinResponseLen
           THEN << [doctor_name |-> Get(doc.metadata, "doctor_name", GenericDoctor),
                    \* the default prefix, a Thai doctor title, is the symbol "dr."
                    doctor_prefix |-> Get(doc.metadata, "doctor_prefix", <<"dr.">>),
                    response |-> Take(doctor_response, ResponseLimit),
                    forum_title |-> Get(doc.metadata, "title", <<>>),
                    forum_url |-> Get(doc.metadata, "url", ""),
                    likes |-> Get(doc.metadata, "likes", 0)] >>
           ELSE <<>>)
          \o HistoryLoop(Tail(docs))

RECURSIVE InsertByLikes(_, _)
InsertByLikes(sorted, x) ==
    IF sorted = <<>> THEN <<x>>
    ELSE IF x.likes > Head(sorted).likes THEN <<x>> \o sorted
         ELSE <<Head(sorted)>> \o InsertByLikes(Tail(sorted), x)

RECURSIVE SortByLikes(_)
\* doctor_history.sort(key=lambda x: x['likes'], reverse=True)
SortByLikes(entries) ==
    IF entries = <<>> THEN <<>>
    ELSE InsertByLikes(SortByLikes(SubSeq(entries, 1, Len(entries) - 1)),
                       entries[Len(entries)])

\* mutant: the entries are not sorted by likes
GetHistoricalDoctorComments_Unsorted(relevant_docs) ==
    Take(HistoryLoop(relevant_docs), HistoryCap)

GetHistoricalDoctorComments(relevant_docs) ==
    Take(SortByLikes(HistoryLoop(relevant_docs)), HistoryCap)

---------------------------------------------------------------------------
(* The reference section of the answer *)

\* the marker query looks for: the Thai word for "references"
REFMARK == "laeng-ang-ing"
\* the link sign that precedes a URL
LINK == "link:"
\* "\n\n[books] **<references> from the Agnos Health forum:**\n"
ReferenceHeader == <<NL, NL, "[books] **", REFMARK, " Agnos Health:**", NL>>

RECURSIVE CiteDiseases(_, _, _)
\* for disease in disease_predictions: ... (refs so far, seen_urls)
CiteDiseases(diseases, refs, seen_urls) ==
    IF diseases = <<>> THEN [refs |-> refs, seen |-> seen_urls]
    ELSE LET d == Head(diseases)
             url == Get(d, "forum_url", "")
         IN  IF url # "" /\ url \notin seen_urls
             THEN CiteDiseases(Tail(diseases),
                               Append(refs, [n |-> Len(refs) + 1,
                                             title |-> d.forum_title, url |-> url]),
                               seen_urls \cup {url})
             ELSE CiteDiseases(Tail(diseases), refs, seen_urls)

RECURSIVE CiteHistory(_, _, _)
\* for history in doctor_history: ... and ref_count <= 5
CiteHistory(history, refs, seen_urls) ==
    IF history = <<>> THEN refs
    ELSE LET h == Head(history)
             url == Get(h, "forum_url", "")
         IN  IF url # "" /\ url \notin seen_urls /\ Len(refs) + 1 <= RefCap
             THEN CiteHistory(Tail(history),
                              Append(refs, [n |-> Len(refs) + 1,
                                            title |-> h.forum_title, url |-> url]),
                              seen_urls \cup {url})
             ELSE CiteHistory(Tail(history), refs, seen_urls)

\* mutant: the doctor-history loop has no ref_count <= 5 test
BuildCitations_NoCap(disease_predictions, doctor_history) ==
    LET d == CiteDiseases(disease_predictions, <<>>, {})
        all == CiteDiseases(doctor_history, d.refs, d.seen)
    IN  all.refs

\* the citation list of lines 467-484
BuildCitations(disease_predictions, doctor_history) ==
    LET d == CiteDiseases(disease_predictions, <<>>, {})
    IN  CiteHistory(doctor_history, d.refs, d.seen)

RECURSIVE ReferenceLines(_)
\* f"{ref_count}. {title}\n" and f"   {link} {url}\n\n" for every citation
ReferenceLines(refs) ==
    IF refs = <<>> THEN <<>>
    ELSE <<ToString(Head(refs).n), ". ">> \o Head(refs).title
         \o <<NL, LINK, Head(refs).url, NL, NL>>
         \o ReferenceLines(Tail(refs))

\* lines 456-486: the answer query returns, from the collaborator's text
FinalAnswer(answer, disease_predictions, doctor_history) ==
    IF disease_predictions # <<>> \/ doctor_history # <<>>
    THEN (IF Contains(answer, <<REFMARK>>)
          THEN RStrip(BeforeFirst(answer, <<REFMARK>>))
          ELSE answer)
         \o ReferenceHeader
         \o ReferenceLines(BuildCitations(disease_predictions, doctor_history))
    ELSE answer

---------------------------------------------------------------------------
(* query *)

Reverse(s) == [i \in 1..Len(s) |-> s[Len(s) + 1 - i]]

\* s rotated left by r positions
Rotate(s, r) == SubSeq(s, r + 1, Len(s)) \o SubSeq(s, 1, r)

\* retriever.get_relevant_documents(question): the k documents of the index
\* nearest to the question, nearest first, in the similarity order sim
Retrieve(index, sim, k) ==
    IF index = <<>> THEN <<>>
    ELSE Take(Rotate(IF sim.rev THEN Reverse(index) ELSE index, sim.rot % Len(index)), k)

\* mutant: a document whose URL an earlier source carries gives no source
Sources_ByUrl(docs) ==
    LET first == Take(docs, SourceCap)
        kept == SelectSeq2(first,
                    {i \in 1..Len(first) :
                        /\ DOMAIN first[i].metadata # {}
                        /\ \A j \in 1..(i - 1) :
                               Get(first[j].metadata, "url", "")
                                   # Get(first[i].metadata, "url", "")})
    IN  [i \in 1..Len(kept) |->
            [title |-> Get(kept[i].metadata, "title", <<"unspecified">>),
             url |-> Get(kept[i].metadata, "url", ""),
             date |-> Get(kept[i].metadata, "date", ""),
             tags |-> Get(kept[i].metadata, "tags", ""),
             content_type |-> Get(kept[i].metadata, "content_type", "question")]]

\* mutant: every metadata-bearing document is a source, not only the first 5
Sources_NoCap(docs) ==
    LET kept == SelectSeq2(docs, {i \in 1..Len(docs) : DOMAIN docs[i].metadata # {}})
    IN  [i \in 1..Len(kept) |->
            [title |-> Get(kept[i].metadata, "title", <<"unspecified">>),
             url |-> Get(kept[i].metadata, "url", ""),
             date |-> Get(kept[i].metadata, "date", ""),
             tags |-> Get(kept[i].metadata, "tags", ""),
             content_type |-> Get(kept[i].metadata, "content_type", "question")]]

\* lines 445-454: sources from relevant_docs[:5], a document with an empty
\* metadata dict gives none
Sources(docs) ==
    LET first == Take(docs, SourceCap)
        kept == SelectSeq2(first, {i \in 1..Len(first) : DOMAIN first[i].metadata # {}})
    IN  [i \in 1..Len(kept) |->
            [title |-> Get(kept[i].metadata, "title", <<"unspecified">>),
             url |-> Get(kept[i].metadata, "url", ""),
             date |-> Get(kept[i].metadata, "date", ""),
             tags |-> Get(kept[i].metadata, "tags", ""),
             content_type |-> Get(kept[i].metadata, "content_type", "question")]]

\* mutant: the history is never cut
AppendExchange_NoLimit(history, question, answer) ==
    Append(history, [user |-> question, assistant |-> answer])

\* lines 435-442: the exchange is appended and the last 10 are kept
AppendExchange(history, question, answer) ==
    LET h == Append(history, [user |-> question, assistant |-> answer])
    IN  IF Len(h) > HistoryKeep THEN SubSeq(h, Len(h) - HistoryKeep + 1, Len(h)) ELSE h

\* the body of query's try block on the engine's state: either it returns
\* `value`, or it raises (`raised`) where the retriever or the collaborator fails.
\* `relevant` and `history` are relevant_docs and self.chat_history when it ends.
QueryRun(store, history, sim, question, retrieval_ok, llm) ==
    IF ~store.set
    THEN [raised |-> FALSE, relevant |-> <<>>, history |-> history,
          value |-> [success |-> FALSE, error |-> "Vector store not initialized"]]
    ELSE IF ~retrieval_ok
    THEN [raised |-> TRUE, relevant |-> <<>>, history |-> history,
          value |-> [raised |-> TRUE, error |-> "retrieval failed"]]
    ELSE
      LET docs == GetSymptomBasedMatches(question, Retrieve(store.docs, sim, QueryK))
          disease_predictions == ExtractDiseasePredictions(docs)
          doctor_history == GetHistoricalDoctorComments(docs)
      IN  IF ~llm.ok
          THEN [raised |-> TRUE, relevant |-> docs, history |-> history,
                value |-> [raised |-> TRUE, error |-> "generation failed"]]
          ELSE [raised |-> FALSE, relevant |-> docs,
                history |-> AppendExchange(history, question, llm.content),
                value |-> [success |-> TRUE,
                           answer |-> FinalAnswer(llm.content, disease_predictions,
                                                  doctor_history),
                           sources |-> Sources(docs),
                           disease_predictions |-> disease_predictions,
                           doctor_history |-> doctor_history,
                           matched_cases |-> Len(docs),
                           symptom_relevance_used |-> TRUE]]

\* mutant: the except clause is missing, the exception leaves query
QueryReturn_NoExcept(run) == run.value

\* try: ... except Exception as e: return {'success': False, 'error': str(e)}
QueryReturn(run) ==
    IF run.raised THEN [success |-> FALSE, error |-> run.value.error] ELSE run.value

---------------------------------------------------------------------------
(* The corpus files, the snapshots and the collaborator's answers the      *)
(* engine is run on                                                        *)

DictComment(text, prefix, likes) ==
    [type |-> "dict",
     value |-> [content_text |-> text,
                user |-> [prefix_name |-> prefix, firstname |-> <<"fn">>,
                          lastname |-> <<"ln">>],
                pub_date |-> "2024", sum_likes |-> likes]]

StrComment(text) == [type |-> "str", value |-> text]

\* a comment that is neither an object nor a string
OtherComment == [type |-> "other", value |-> <<>>]

Rec(title, content, url, comments) ==
    [kind |-> "object",
     data |-> [title |-> title, content |-> content, url |-> url, date |-> "2024",
               tags |-> "[]", doctor_comments |-> comments]]

\* a record without a url key
RecNoUrl(title, content, comments) ==
    [kind |-> "object",
     data |-> [title |-> title, content |-> content, date |-> "2024",
               tags |-> "[]", doctor_comments |-> comments]]

Malformed == [kind |-> "malformed", data |-> EmptyDict]

\* the comments of thread A, shared by its two chunk records
CommentsA ==
    << DictComment(<<"puad", "hua">> \o Pad(20), <<"dr-a">>, 5),
       DictComment(<<"khriat">> \o Pad(25), <<"dr-b">>, 1),
       DictComment(Pad(15), <<>>, 2) >>

\* nine threads; thread A is stored as two chunk records
CorpusBig ==
    << Rec(<<"khriat">>, <<"khriat", "x">>, "uK", <<>>),
       Rec(<<"Depression">>, <<"x">>, "uF", <<>>),
       Malformed,
       Rec(<<"rok", "x">>, <<"khai">>, "uC", << StrComment(Pad(5)), OtherComment >>),
       Rec(<<"puad", "hua">>, <<"puad", "hua", "khai">>, "uD",
           << DictComment(<<"puad", BSN, "hua">> \o Pad(30), <<"dr-c">>, 7) >>),
       Rec(<<"khai">>, <<"khai", "x">>, "uE",
           << DictComment(Pad(21) \o <<"khai">>, <<"dr-a">>, 3) >>),
       Rec(<<"x">>, <<"puad">>, "uI",
           << DictComment(<<"puad", "hua">> \o Pad(21), <<"dr-b">>, 4) >>),
       Rec(<<>>, <<"x">>, "uH", <<>>),
       RecNoUrl(<<"Stress", "x">>, <<"puad">>, << StrComment(Pad(30)) >>),
       Rec(<<"suem", "sao">>, <<"puad", "hua", "x">>, "uA", CommentsA),
       Rec(<<"suem", "sao">>, <<"x", "x">>, "uA", CommentsA) >>

\* the scenario of two threads: a depression thread with one doctor comment
\* and a patient-only headache question
CorpusSmall ==
    << Rec(<<"suem", "sao">>, <<"x">>, "uA",
           << DictComment(<<"khriat">> \o Pad(51), <<"dr-a">>, 5) >>),
       Rec(<<"puad", "hua">>, <<"puad", "hua", "khai">>, "uB", <<>>) >>

\* five threads with a doctor comment each, four of them with a disease title;
\* the first thread is stored as two chunk records, the answer of the last is
\* longer than the 300 characters a history entry keeps
CorpusDiseases ==
    << Rec(<<"khriat">>, <<"khriat", "x">>, "uK",
           << DictComment(<<"khriat">> \o Pad(22), <<"dr-a">>, 2) >>),
       Rec(<<"x">>, <<"puad">>, "uI",
           << DictComment(<<"puad", "hua">> \o Pad(21), <<"dr-b">>, 4) >>),
       Rec(<<"Depression">>, <<"x">>, "uF", << StrComment(Pad(15)) >>),
       Rec(<<"khriat">>, <<"x", "x">>, "uK",
           << DictComment(<<"khriat">> \o Pad(22), <<"dr-a">>, 2) >>),
       Rec(<<"rok", "x">>, <<"khai">>, "uC",
           << DictComment(Pad(21) \o <<"khai">>, <<"dr-c">>, 4) >>),
       Rec(<<"Stress", "x">>, <<"puad">>, "uS",
           << DictComment(Pad(ResponseLimit - 1) \o <<"e", "f", "g">>, <<"dr-b">>, 5) >>) >>

\* a file with no usable record
CorpusUnusable == << Malformed, Rec(<<>>, <<"x">>, "uH", <<>>) >>

DataFiles ==
    { [exists |-> FALSE, lines |-> <<>>],
      [exists |-> TRUE, lines |-> <<>>],
      [exists |-> TRUE, lines |-> CorpusUnusable],
      [exists |-> TRUE, lines |-> CorpusSmall],
      [exists |-> TRUE, lines |-> CorpusBig],
      [exists |-> TRUE, lines |-> CorpusDiseases] }

NoSnapshot == [state |-> "none", docs |-> <<>>]

\* no snapshot, a snapshot that fails to load, a snapshot saved from CorpusSmall
Snapshots ==
    { NoSnapshot,
      [state |-> "corrupt", docs |-> <<>>],
      [state |-> "ok", docs |-> NewIndex(LoadLines(CorpusSmall))] }

EngineQuestions == { <<"x">>, <<"puad", "hua">>, <<"khriat", "khai">> }

\* the collaborator's text without and with a reference section of its own
LLMPlain == <<"answer">>
LLMWithRefs == <<"answer", " ", NL, REFMARK, ":", NL, "1. ", "fake", NL, LINK, "ufake">>

\* llm.invoke(prompt): it raises, or returns a message with this content
LLMFails == [ok |-> FALSE, content |-> <<>>]
LLMOutcomes ==
    { LLMFails,
      [ok |-> TRUE, content |-> LLMPlain],
      [ok |-> TRUE, content |-> LLMWithRefs] }

\* what the collaborators do during one query: the retriever fails (the
\* collaborator is then never called), or it answers and the collaborator
\* fails or returns a text
QueryEnvs ==
    {[retrieval_ok |-> FALSE, llm |-> LLMFails]}
    \cup {[retrieval_ok |-> TRUE, llm |-> l] : l \in LLMOutcomes}

---------------------------------------------------------------------------
(* The forum scraper (src/src/scraper.py, class AgnosForumScraper).        *)
(* A corpus line is [kind, data]: kind "object" is a JSON object with a    *)
(* string content, "malformed" a line json.loads rejects (an empty line    *)
(* included), "nonobject" valid JSON that is no object, "nullcontent" an   *)
(* object whose content is null.                                           *)

\* max_pages of scrape_forum_list
MaxPages == 10
\* content[:100] of generate_content_hash
HashPrefix == 100
\* the default chunk_size of chunk_text
DefaultChunkSize == 500
\* len(doctor_content_text) > 10
MinCommentLen == 10
\* consecutive_empty_pages >= 2
EmptyPageLimit == 2

\* generate_content_hash: the string that is digested.  The digest is taken
\* as injective, so the fingerprint is this string.  A record without the
\* thread_id key prints as None.
GenerateContentHash(content) ==
    Get(content, "thread_id", <<"None">>) \o <<"_">>
        \o Take(Get(content, "content", <<>>), HashPrefix)

\* mutant: the fingerprint is not registered after the write
Register_Skip(index, content_hash) == index

\* self.existing_data[content_hash] = entry
Register(index, content_hash) == index \cup {content_hash}

RECURSIVE LoadExistingLines(_, _, _)
\* the for loop of load_existing_data; only json.JSONDecodeError is caught
LoadExistingLines(lines, index, ids) ==
    IF lines = <<>>
    THEN [raised |-> FALSE, existing_data |-> index, existing_thread_ids |-> ids]
    ELSE LET line == Head(lines)
         IN  CASE line.kind = "malformed" -> LoadExistingLines(Tail(lines), index, ids)
               [] line.kind = "object" ->
                     LET thread_id == Get(line.data, "thread_id", <<>>)
                     IN  LoadExistingLines(Tail(lines),
                             Register(index, GenerateContentHash(line.data)),
                             IF thread_id # <<>> THEN ids \cup {thread_id} ELSE ids)
               \* data.get on a non-object (AttributeError) or None[:100]
               \* (TypeError): the exception leaves load_existing_data
               [] OTHER ->
                     [raised |-> TRUE, existing_data |-> index,
                      existing_thread_ids |-> ids]

\* load_existing_data
LoadExistingData(file, index, ids) ==
    IF ~file.exists
    THEN [raised |-> FALSE, existing_data |-> index, existing_thread_ids |-> ids]
    ELSE LoadExistingLines(file.lines, index, ids)

\* is_thread_new
IsThreadNew(thread_id, ids) == thread_id \notin ids

\* get_new_threads_only
GetNewThreadsOnly(all_threads, ids) ==
    SelectSeq2(all_threads,
               {i \in 1..Len(all_threads) :
                   /\ Get(all_threads[i], "thread_id", <<>>) # <<>>
                   /\ IsThreadNew(all_threads[i].thread_id, ids)})

RECURSIVE WordLen(_)
\* the length of the run of non-whitespace characters t starts with
WordLen(t) == IF t = <<>> \/ Head(t) \in Whitespace THEN 0 ELSE 1 + WordLen(Tail(t))

RECURSIVE SplitWords(_)
\* text.split()
SplitWords(text) ==
    LET t == LStrip(text)
    IN  IF t = <<>> THEN <<>>
        ELSE <<SubSeq(t, 1, WordLen(t))>> \o SplitWords(SubSeq(t, WordLen(t) + 1, Len(t)))

RECURSIVE JoinWords(_)
\* " ".join(words)
JoinWords(words) ==
    IF words = <<>> THEN <<>>
    ELSE IF Len(words) = 1 THEN words[1]
    ELSE words[1] \o <<" ">> \o JoinWords(Tail(words))

RECURSIVE ChunkWords(_, _)
\* for i in range(0, len(words), chunk_size): ...
ChunkWords(words, chunk_size) ==
    IF words = <<>> THEN <<>>
    ELSE LET chunk == JoinWords(Take(words, chunk_size))
         IN  (IF chunk # <<>> THEN <<chunk>> ELSE <<>>)
             \o ChunkWords(SubSeq(words, chunk_size + 1, Len(words)), chunk_size)

\* mutant: a text without a word gives no chunk
ChunkText_NoFallback(text, chunk_size) == ChunkWords(SplitWords(text), chunk_size)

\* chunk_text
ChunkText(text, chunk_size) ==
    IF text = <<>> THEN <<>>
    ELSE LET chunks == ChunkWords(SplitWords(text), chunk_size)
         IN  IF chunks # <<>> THEN chunks ELSE <<text>>

\* clean_text: re.sub(r'\s+', ' ', text).strip()
CleanText(text) == JoinWords(SplitWords(text))

\* the event of one time.sleep
SleepEvent(secs) == [ev |-> "sleep", arg |-> secs]

\* mutant: the next page is requested at once
PauseEvents_None(secs) == <<>>

\* time.sleep(self.delay) between two listing pages
PauseEvents(secs) == <<SleepEvent(secs)>>

\* mutant: every linked article is taken as a thread not seen before
NotSeen_Always(thread_id, seen_thread_ids) == TRUE

\* thread_info["thread_id"] not in seen_thread_ids
NotSeen(thread_id, seen_thread_ids) == thread_id \notin seen_thread_ids

\* the URL of a thread
ThreadUrl(thread_id) == <<"forums/">> \o thread_id

\* the thread_info dict built from one article of a listing page
ThreadInfo(article) ==
    LET info == [url |-> ThreadUrl(article.thread_id),
                 thread_id |-> article.thread_id,
                 title |-> CleanText(article.title),
                 tags |-> [kind |-> "list", items |-> <<>>]]
    IN  IF article.preview.present
        THEN info @@ [content_preview |-> CleanText(article.preview.text)]
        ELSE info

\* the page the site serves as listing page n
PageAt(s, n) ==
    IF n <= Len(s.pages) THEN s.pages[n]
    ELSE CASE s.tail = "fresh" ->
                  \* one thread not listed before
                  [ok |-> TRUE,
                   articles |-> << [linked |-> TRUE, thread_id |-> <<"p", ToString(n)>>,
                                    title |-> <<"x">>,
                                    preview |-> [present |-> TRUE, text |-> <<"x">>]] >>]
           [] s.tail = "stale" ->
                  \* an article without a link: an item, no thread
                  [ok |-> TRUE,
                   articles |-> << [linked |-> FALSE, thread_id |-> <<>>, title |-> <<>>,
                                    preview |-> [present |-> FALSE, text |-> <<>>]] >>]
           [] OTHER -> [ok |-> TRUE, articles |-> <<>>]

RECURSIVE ProcessArticles(_, _, _)
\* for article in articles: ... ; st = [all_threads, seen_thread_ids, page_thread_count]
ProcessArticles(articles, st, limit) ==
    IF articles = <<>> \/ Len(st.all_threads) >= limit THEN st
    ELSE LET article == Head(articles)
         IN  IF article.linked /\ NotSeen(article.thread_id, st.seen_thread_ids)
             THEN ProcessArticles(Tail(articles),
                      [all_threads |-> Append(st.all_threads, ThreadInfo(article)),
                       seen_thread_ids |-> st.seen_thread_ids \cup {article.thread_id},
                       page_thread_count |-> st.page_thread_count + 1],
                      limit)
             ELSE ProcessArticles(Tail(articles), st, limit)

RECURSIVE ListLoop(_, _, _, _, _)
\* the while loop of scrape_forum_list on the site s;
\* st = [all_threads, seen_thread_ids, current_page, consecutive_empty_pages, events]
ListLoop(s, st, limit, secs, max_pages) ==
    IF ~(Len(st.all_threads) < limit /\ st.current_page <= max_pages) THEN st
    ELSE
      LET page == PageAt(s, st.current_page)
          requested == [st EXCEPT !.events = Append(@, [ev |-> "get", arg |-> st.current_page])]
      IN  IF ~page.ok THEN requested                       \* except: break
          ELSE IF page.articles = <<>> THEN requested      \* if not articles: break
          ELSE
            LET done == ProcessArticles(page.articles,
                            [all_threads |-> st.all_threads,
                             seen_thread_ids |-> st.seen_thread_ids,
                             page_thread_count |-> 0], limit)
                consecutive_empty_pages ==
                    IF done.page_thread_count = 0
                    THEN st.consecutive_empty_pages + 1 ELSE 0
                after == [requested EXCEPT
                             !.all_threads = done.all_threads,
                             !.seen_thread_ids = done.seen_thread_ids,
                             !.consecutive_empty_pages = consecutive_empty_pages]
            IN  IF \/ consecutive_empty_pages >= EmptyPageLimit
                   \/ Len(done.all_threads) >= limit
                   \/ st.current_page >= max_pages
                THEN after                                 \* break
                ELSE ListLoop(s,
                         [after EXCEPT !.current_page = @ + 1,
                                       !.events = @ \o PauseEvents(secs)],
                         limit, secs, max_pages)

\* mutant: the loop has no page ceiling of 10
ScrapeForumList_NoCeiling(s, limit, secs) ==
    LET st == ListLoop(s, [all_threads |-> <<>>, seen_thread_ids |-> {},
                           current_page |-> 1, consecutive_empty_pages |-> 0,
                           events |-> <<>>], limit, secs, MaxPages + 5)
    IN  [threads |-> Take(st.all_threads, limit), events |-> st.events]

\* scrape_forum_list: the threads it returns and the requests and sleeps it made
ScrapeForumList(s, limit, secs) ==
    LET st == ListLoop(s, [all_threads |-> <<>>, seen_thread_ids |-> {},
                           current_page |-> 1, consecutive_empty_pages |-> 0,
                           events |-> <<>>], limit, secs, MaxPages)
    IN  [threads |-> Take(st.all_threads, limit), events |-> st.events]

\* a doctor comment of the structured payload, kept with its metadata
FullDoctorComments(doctor_comments) ==
    LET kept == SelectSeq2(doctor_comments,
                    {i \in 1..Len(doctor_comments) :
                        Len(Strip(doctor_comments[i].value.content_text)) > MinCommentLen})
    IN  [i \in 1..Len(kept) |->
            [kept[i] EXCEPT !.value.content_text = Strip(@)]]

RECURSIVE ProcessForumItems(_, _)
\* the for loop of process_api_forum_data; an item that is no mapping raises,
\* the except clause returns the posts built so far
ProcessForumItems(items, posts_data) ==
    IF items = <<>> THEN posts_data
    ELSE LET forum_item == Head(items)
         IN  IF ~forum_item.ok THEN posts_data
             ELSE
               LET forum == forum_item.forum
                   chunks == ChunkText(forum.content_text, DefaultChunkSize)
                   full_doctor_comments == FullDoctorComments(forum_item.doctor_comments)
               IN  ProcessForumItems(Tail(items),
                       posts_data \o
                       [i \in 1..Len(chunks) |->
                           [thread_id |-> forum.id,
                            title |-> forum.disease_text,
                            tags |-> [kind |-> "list", items |-> <<>>],
                            content |-> chunks[i],
                            content_type |-> "question",
                            url |-> ThreadUrl(forum.id),
                            doctor_comments |-> full_doctor_comments]])

\* process_api_forum_data
ProcessApiForumData(api_data) == ProcessForumItems(api_data.forums, <<>>)

\* the record scrape_thread_detail builds from the listing data and one chunk
ThreadRecord(thread_info, chunk, content_type, doctor_comments) ==
    [thread_id |-> thread_info.thread_id,
     title |-> Get(thread_info, "title", <<>>),
     tags |-> Get(thread_info, "tags", [kind |-> "list", items |-> <<>>]),
     content |-> chunk,
     content_type |-> content_type,
     url |-> thread_info.url,
     doctor_comments |-> doctor_comments]

\* mutant: a failed detail fetch yields no record
DetailOnError_Drop(thread_info) == <<>>

\* the except clause of scrape_thread_detail: one preview record with an error
DetailOnError(thread_info) ==
    << ThreadRecord(thread_info, Get(thread_info, "content_preview", <<>>),
                    "question_preview", <<>>)
       @@ [error |-> "detail fetch failed"] >>

\* scrape_thread_detail, on what the site serves for the thread:
\* detail = [api: [found, forums], html: [ok, has_main, content, comments]]
ScrapeThreadDetail(thread_info, detail) ==
    IF detail.api.found THEN ProcessApiForumData(detail.api)
    ELSE IF ~detail.html.ok THEN DetailOnError(thread_info)
    ELSE
      LET preview == Get(thread_info, "content_preview", <<>>)
          full_content == IF detail.html.content.present
                          THEN CleanText(detail.html.content.text) ELSE preview
          chunks == IF detail.html.has_main
                    THEN ChunkText(full_content, DefaultChunkSize) ELSE <<>>
          posts_data == [i \in 1..Len(chunks) |->
                            ThreadRecord(thread_info, chunks[i], "question",
                                         detail.html.comments)]
          preview_chunks == ChunkText(preview, DefaultChunkSize)
      IN  IF posts_data # <<>> THEN posts_data
          ELSE [i \in 1..Len(preview_chunks) |->
                   ThreadRecord(thread_info, preview_chunks[i], "question_preview", <<>>)]

\* mutant: the file is truncated whatever the mode
OpenFile_Truncate(file, mode) == <<>>

\* open(self.output_file, mode): the lines the file holds once it is open
OpenFile(file, mode) == IF mode = "w" \/ ~file.exists THEN <<>> ELSE file.lines

\* entry["tags"] = json.dumps(entry["tags"]) for a list of tags
SerializeTags(entry) ==
    IF "tags" \in DOMAIN entry /\ entry.tags.kind = "list"
    THEN [entry EXCEPT !.tags = [kind |-> "json", items |-> entry.tags.items]]
    ELSE entry

RECURSIVE SaveLoop(_, _)
\* the for loop of save_data; st = [lines, existing_data, new_records, duplicates]
SaveLoop(data, st) ==
    IF data = <<>> THEN st
    ELSE LET entry == Head(data)
             content_hash == GenerateContentHash(entry)
         IN  IF content_hash \in st.existing_data
             THEN SaveLoop(Tail(data), [st EXCEPT !.duplicates = @ + 1])
             ELSE SaveLoop(Tail(data),
                      [lines |-> Append(st.lines,
                                        [kind |-> "object", data |-> SerializeTags(entry)]),
                       existing_data |-> Register(st.existing_data, content_hash),
                       new_records |-> st.new_records + 1,
                       duplicates |-> st.duplicates])

\* save_data
SaveData(file, index, data, mode) ==
    LET st == SaveLoop(data, [lines |-> OpenFile(file, mode), existing_data |-> index,
                              new_records |-> 0, duplicates |-> 0])
    IN  [file |-> [exists |-> TRUE, lines |-> st.lines],
         existing_data |-> st.existing_data,
         new_records |-> st.new_records,
         duplicates |-> st.duplicates]

\* what a save_data call leaves on record: its arguments, the state it ran on
\* and what it did
SaveRecord(file, index, data, mode) ==
    LET r == SaveData(file, index, data, mode)
    IN  [called |-> TRUE, mode |-> mode, data |-> data, pre_file |-> file,
         pre_index |-> index, post_file |-> r.file, new_records |-> r.new_records,
         duplicates |-> r.duplicates]

\* what the site serves for a thread
DetailOf(s, thread_info) ==
    IF thread_info.thread_id \in DOMAIN s.detail THEN s.detail[thread_info.thread_id]
    ELSE s.fallback

RECURSIVE ScrapeAll(_, _)
\* for i, thread in enumerate(threads, 1): all_data.extend(scrape_thread_detail(thread))
ScrapeAll(s, threads) ==
    IF threads = <<>> THEN <<>>
    ELSE ScrapeThreadDetail(Head(threads), DetailOf(s, Head(threads)))
         \o ScrapeAll(s, Tail(threads))

\* the number of endpoint patterns try_api_endpoint requests
ApiEndpoints == 3

\* the requests and sleeps of scrape_thread_detail: try_api_endpoint requests
\* its endpoints one after the other until one answers with a recognized
\* payload (`tried` endpoints in all, every endpoint when none does); without
\* a payload the scraper sleeps self.delay and requests the thread page
DetailRequests(detail, secs, tried) ==
    [k \in 1..(IF detail.api.found THEN tried ELSE ApiEndpoints) |->
        [ev |-> "get_api", arg |-> k]]
    \o (IF detail.api.found THEN <<>>
        ELSE <<SleepEvent(secs), [ev |-> "get_thread", arg |-> 0]>>)

RECURSIVE RunRequests(_, _, _, _)
\* the requests and sleeps of the detail loop of run, thread after thread
RunRequests(s, threads, secs, tried) ==
    IF threads = <<>> THEN <<>>
    ELSE DetailRequests(DetailOf(s, Head(threads)), secs, tried)
         \o RunRequests(s, Tail(threads), secs, tried)

\* run(mode), from self.save_data(all_data, mode=save_mode) on
RunSave(mode, r, all_data) ==
    IF all_data = <<>> THEN r
    ELSE [r EXCEPT !.all_data = all_data,
                   !.save = SaveRecord(r.file, r.existing_data, all_data,
                                       IF mode = "update" THEN "a" ELSE "w"),
                   !.file = SaveData(r.file, r.existing_data, all_data,
                                     IF mode = "update" THEN "a" ELSE "w").file,
                   !.existing_data =
                       SaveData(r.file, r.existing_data, all_data,
                                IF mode = "update" THEN "a" ELSE "w").existing_data]

\* run(mode), from the filter of the listing on: update mode keeps the new
\* threads and stops when there is none
RunThreads(mode, s, r, threads) ==
    IF mode = "update" /\ threads = <<>>
    THEN [r EXCEPT !.outcome = "up_to_date", !.filtered = TRUE]
    ELSE RunSave(mode,
                 [r EXCEPT !.outcome = "completed", !.filtered = (mode = "update"),
                           !.threads = threads],
                 ScrapeAll(s, threads))

\* run(mode), from threads = self.scrape_forum_list() on
RunListing(mode, s, r, listing) ==
    IF listing.threads = <<>>
    THEN [r EXCEPT !.outcome = "no_threads", !.listing = listing]
    ELSE RunThreads(mode, s, [r EXCEPT !.listing = listing],
                    IF mode = "update"
                    THEN GetNewThreadsOnly(listing.threads, r.existing_thread_ids)
                    ELSE listing.threads)

\* run(mode), once the corpus is loaded
RunLoaded(mode, s, limit, secs, file, loaded) ==
    IF loaded.raised
    THEN [outcome |-> "raised", listing |-> [threads |-> <<>>, events |-> <<>>],
          filtered |-> FALSE, threads |-> <<>>, all_data |-> <<>>,
          save |-> [called |-> FALSE], file |-> file,
          existing_data |-> loaded.existing_data,
          existing_thread_ids |-> loaded.existing_thread_ids]
    ELSE RunListing(mode, s,
                    [outcome |-> "listed", listing |-> [threads |-> <<>>, events |-> <<>>],
                     filtered |-> FALSE, threads |-> <<>>, all_data |-> <<>>,
                     save |-> [called |-> FALSE], file |-> file,
                     existing_data |-> loaded.existing_data,
                     existing_thread_ids |-> loaded.existing_thread_ids],
                    ScrapeForumList(s, limit, secs))

\* run(mode) on the scraper's state: what it did and the state it leaves
RunScraper(mode, s, limit, secs, file, index, ids) ==
    RunLoaded(mode, s, limit, secs, file,
              IF mode = "update" THEN LoadExistingData(file, index, ids)
              ELSE [raised |-> FALSE, existing_data |-> index,
                    existing_thread_ids |-> ids])

---------------------------------------------------------------------------
(* The sites, corpus files and batches the scraper is run on *)

Article(thread_id, preview) ==
    [linked |-> TRUE, thread_id |-> thread_id, title |-> <<"x">>,
     preview |-> [present |-> TRUE, text |-> preview]]

ListingPage(articles) == [ok |-> TRUE, articles |-> articles]

\* no structured payload; fetching the thread page raises
FailedDetail ==
    [api |-> [found |-> FALSE, forums |-> <<>>],
     html |-> [ok |-> FALSE, has_main |-> FALSE,
               content |-> [present |-> FALSE, text |-> <<>>], comments |-> <<>>]]

ForumItem(id, content_text, doctor_comments) ==
    [ok |-> TRUE,
     forum |-> [id |-> id, content_text |-> content_text, disease_text |-> <<"rok">>],
     doctor_comments |-> doctor_comments]

\* try_api_endpoint found a payload with a 'forums' or a 'forum' key
ApiDetail(items) ==
    [FailedDetail EXCEPT !.api = [found |-> TRUE, forums |-> items]]

\* no structured payload; the thread page is fetched and parsed
HtmlDetail(has_main, content, comments) ==
    [FailedDetail EXCEPT !.html = [ok |-> TRUE, has_main |-> has_main,
                                  content |-> content, comments |-> comments]]

\* three threads on two pages, one repeated within page 1 and one across
\* pages; the payload of t1 holds the same forum twice, the page of t2 fails
SiteSmall ==
    [pages |-> << ListingPage(<< Article(<<"t1">>, <<"a", " ", " ", "b">>), Article(<<"t2">>, <<"c">>),
                                 Article(<<"t1">>, <<"a">>) >>),
                  ListingPage(<< Article(<<"t2">>, <<"c">>),
                                 [Article(<<>>, <<>>) EXCEPT !.linked = FALSE],
                                 Article(<<"t3">>, <<" ", "d", NL>>) >>) >>,
     tail |-> "empty",
     detail |-> (<<"t1">> :> ApiDetail(<< ForumItem(<<"t1">>, <<"h", "i", " ", "y", "o">>,
                                        << DictComment(<<" ">> \o Pad(11), <<"dr-a">>, 2),
                                           DictComment(Pad(10), <<"dr-b">>, 1) >>),
                                    ForumItem(<<"t1">>, <<"h", "i", " ", "y", "o">>, <<>>) >>))
                @@ (<<"t2">> :> FailedDetail)
                @@ (<<"t3">> :> HtmlDetail(TRUE, [present |-> TRUE,
                                            text |-> <<" ", "h", NL, NL, "w", " ">>],
                                     << Pad(51) >>)),
     fallback |-> HtmlDetail(FALSE, [present |-> FALSE, text |-> <<>>], <<>>)]

\* threads whose detail yields nothing: an empty page body with no preview,
\* a payload with an empty forum list, a payload about another forum id whose
\* second item is no mapping; the second listing page fails
SiteDropping ==
    [pages |-> << ListingPage(<< [Article(<<"t4">>, <<>>) EXCEPT !.preview.present = FALSE],
                                 Article(<<"t5">>, <<"e">>),
                                 Article(<<"t6">>, <<"f">>) >>),
                  [ok |-> FALSE, articles |-> <<>>] >>,
     tail |-> "empty",
     detail |-> (<<"t4">> :> HtmlDetail(TRUE, [present |-> TRUE, text |-> <<" ">>], <<>>))
                @@ (<<"t5">> :> ApiDetail(<<>>))
                @@ (<<"t6">> :> ApiDetail(<< ForumItem(<<"t9">>, <<"g">>, <<>>),
                                    [ForumItem(<<>>, <<>>, <<>>) EXCEPT !.ok = FALSE] >>)),
     fallback |-> HtmlDetail(FALSE, [present |-> FALSE, text |-> <<>>], <<>>)]

\* every listing page holds one thread not listed before
SiteEndless ==
    [pages |-> <<>>, tail |-> "fresh", detail |-> EmptyDict,
     fallback |-> HtmlDetail(TRUE, [present |-> FALSE, text |-> <<>>], <<>>)]

\* one thread on page 1, then pages with an item and no thread
SiteStale ==
    [pages |-> << ListingPage(<< Article(<<"t1">>, <<"a">>) >>) >>,
     tail |-> "stale", detail |-> EmptyDict,
     fallback |-> HtmlDetail(FALSE, [present |-> FALSE, text |-> <<>>], <<>>)]

\* a site with a max_threads and a delay
Scenarios ==
    { [site |-> SiteSmall, max_threads |-> 20, delay |-> 1],
      [site |-> SiteSmall, max_threads |-> 2, delay |-> 1],
      [site |-> SiteSmall, max_threads |-> 0, delay |-> 1],
      [site |-> SiteDropping, max_threads |-> 20, delay |-> 2],
      [site |-> SiteEndless, max_threads |-> 20, delay |-> 1],
      [site |-> SiteEndless, max_threads |-> 3, delay |-> 2],
      [site |-> SiteStale, max_threads |-> 20, delay |-> 1] }

\* a record as save_data writes it
CorpusRecord(thread_id, content) ==
    [kind |-> "object",
     data |-> [thread_id |-> thread_id, title |-> <<"x">>,
               tags |-> [kind |-> "json", items |-> <<>>], content |-> content,
               content_type |-> "question", url |-> ThreadUrl(thread_id),
               doctor_comments |-> <<>>]]

\* an entry of a batch handed to save_data
Entry(thread_id, content) ==
    [thread_id |-> thread_id, title |-> <<"x">>,
     tags |-> [kind |-> "list", items |-> <<"tag">>], content |-> content,
     content_type |-> "question", url |-> ThreadUrl(thread_id),
     doctor_comments |-> <<>>]

\* the corpus file before the scraper acts: absent, empty, a corpus with an
\* unparseable line and a record without thread_id, a corpus with a line
\* that is valid JSON and no object, a corpus with an object whose content
\* is null
ScraperFiles ==
    { [exists |-> FALSE, lines |-> <<>>],
      [exists |-> TRUE, lines |-> <<>>],
      [exists |-> TRUE, lines |->
          << CorpusRecord(<<"t1">>, <<"h", "i", " ", "y", "o">>), Malformed,
              CorpusRecord(<<"t3">>, <<"h", " ", "w">>),
              [kind |-> "object", data |-> [content |-> <<"z">>]] >>],
      [exists |-> TRUE, lines |->
          << CorpusRecord(<<"t1">>, <<"a">>), [kind |-> "nonobject", data |-> EmptyDict],
              CorpusRecord(<<"t3">>, <<"h", " ", "w">>) >>],
      [exists |-> TRUE, lines |->
          << [kind |-> "nullcontent", data |-> [thread_id |-> <<"t2">>]], CorpusRecord(<<"t1">>, <<"a">>) >>] }

\* batches: twice the same record; a record of the corpus, then two records
\* that differ only after their first 100 characters, then a new record
\* twice with another between; the empty batch
SaveBatches ==
    { << Entry(<<"t7">>, <<"x">>), Entry(<<"t7">>, <<"x">>) >>,
      << Entry(<<"t1">>, <<"h", "i", " ", "y", "o">>),
         Entry(<<"t8">>, Pad(100) \o <<"x">>), Entry(<<"t8">>, Pad(100) \o <<"y">>),
         Entry(<<"t7">>, <<"x">>), Entry(<<"t8">>, <<"v">>), Entry(<<"t7">>, <<"x">>) >>,
      <<>> }

\* records the fingerprint probe draws: ids and contents with and without '_',
\* contents that differ at, before and after character 100, a record without
\* thread_id and one without content
HashRecords ==
    { [thread_id |-> <<"a", "_", "b">>, content |-> <<"c">>],
      [thread_id |-> <<"a">>, content |-> <<"b", "_", "c">>],
      [thread_id |-> <<"a">>, content |-> <<"c">>],
      [thread_id |-> <<"b">>, content |-> <<"c">>],
      [thread_id |-> <<"a">>, content |-> Pad(100) \o <<"x">>],
      [thread_id |-> <<"a">>, content |-> Pad(100) \o <<"y">>],
      [thread_id |-> <<"a">>, content |-> Pad(99) \o <<"x">>],
      [thread_id |-> <<"a">>, content |-> Pad(99) \o <<"y">>],
      [thread_id |-> <<"a">>],
      [thread_id |-> <<"a">>, content |-> <<>>] }

\* the scraper's fields after construction, with no site to scrape
ScraperIdle ==
    /\ site = [pages |-> <<>>, tail |-> "empty", detail |-> EmptyDict,
               fallback |-> FailedDetail]
    /\ max_threads = 0
    /\ delay = 0
    /\ output_file = [exists |-> FALSE, lines |-> <<>>]
    /\ existing_data = {}
    /\ existing_thread_ids = {}
    /\ sop = [op |-> "none"]
    /\ nops = 0

\* the fingerprint probe at rest
HashIdle == hp = [pc |-> "idle"]

---------------------------------------------------------------------------
(* The engine: constructor, create_vector_store, query, clear_memory,      *)
(* initialize_simple_rag_system                                            *)

NoCall == [called |-> FALSE]

\* the engine's fields before any engine is constructed
EngineFresh ==
    /\ engine = "none"
    /\ vector_store = [set |-> FALSE, docs |-> <<>>]
    /\ built_from = "none"
    /\ init_outcome = "none"
    /\ chat_history = <<>>
    /\ call = NoCall
    /\ last_docs = <<>>
    /\ result = NoCall
    /\ nqueries = 0

\* the scoring probe at rest
ScoreIdle ==
    /\ sc_pc = "idle"
    /\ sc_question = <<>>
    /\ sc_doc = [page_content |-> <<>>, metadata |-> EmptyDict]
    /\ sc_symptoms = <<>>
    /\ sc_score = [num |-> 0, den |-> 1]

Init ==
    /\ data_file \in DataFiles
    /\ api_key \in BOOLEAN
    /\ snapshot \in Snapshots
    /\ similarity \in [rev : BOOLEAN, rot : 0..MaxRot]
    /\ EngineFresh
    /\ ScoreIdle
    /\ ScraperIdle
    /\ HashIdle

\* what create_vector_store does on the store and the snapshot:
\* [outcome, store, snapshot]
CreateRun(force_recreate, embed_ok) ==
    IF snapshot.state = "ok" /\ ~force_recreate
    THEN \* FAISS.load_local succeeds
         [outcome |-> "loaded", store |-> [set |-> TRUE, docs |-> snapshot.docs],
          snapshot |-> snapshot]
    ELSE \* no snapshot, force_recreate, or load_local raised (caught): create
      LET index == NewIndex(LoadDocuments(data_file))
      IN  IF embed_ok
          THEN [outcome |-> "created", store |-> [set |-> TRUE, docs |-> index],
                snapshot |-> [state |-> "ok", docs |-> index]]
          ELSE \* FAISS.from_documents raises: nothing is assigned
               [outcome |-> "raised", store |-> vector_store, snapshot |-> snapshot]

\* SimpleAgnosHealthRAG(data_path, openai_api_key)
Construct ==
    /\ engine = "none"
    /\ engine' = IF api_key THEN "constructed" ELSE "failed"
    /\ UNCHANGED <<data_file, api_key, snapshot, similarity, vector_store, built_from,
                   init_outcome, chat_history, call, last_docs, result, nqueries,
                   score_vars, scraper_vars>>

\* rag.create_vector_store(force_recreate)
CreateVectorStore(force_recreate, embed_ok) ==
    /\ engine = "constructed"
    /\ init_outcome = "none"
    /\ LET run == CreateRun(force_recreate, embed_ok)
       IN  /\ vector_store' = run.store
           /\ snapshot' = run.snapshot
           /\ built_from' = run.outcome
    /\ UNCHANGED <<data_file, api_key, similarity, engine, init_outcome, chat_history,
                   call, last_docs, result, nqueries, score_vars,
                   scraper_vars>>

\* initialize_simple_rag_system(data_path, openai_api_key, force_recreate)
Initialize(force_recreate, embed_ok) ==
    /\ engine = "none"
    /\ IF ~api_key
       THEN \* the constructor raises ValueError, re-raised
            /\ engine' = "failed"
            /\ init_outcome' = "raised"
            /\ UNCHANGED <<vector_store, snapshot, built_from>>
       ELSE LET run == CreateRun(force_recreate, embed_ok)
            IN  /\ vector_store' = run.store
                /\ snapshot' = run.snapshot
                /\ built_from' = run.outcome
                /\ engine' = IF run.outcome = "raised" THEN "failed" ELSE "constructed"
                /\ init_outcome' = IF run.outcome = "raised" THEN "raised" ELSE "returned"
    /\ UNCHANGED <<data_file, api_key, similarity, chat_history, call, last_docs,
                   result, nqueries, score_vars, scraper_vars>>

\* rag.query(question)
Query(question, retrieval_ok, llm) ==
    /\ engine = "constructed"
    /\ nqueries < MaxQueries
    /\ LET run == QueryRun(vector_store, chat_history, similarity, question,
                           retrieval_ok, llm)
       IN  /\ result' = QueryReturn(run)
           /\ chat_history' = run.history
           /\ last_docs' = run.relevant
    /\ call' = [called |-> TRUE, store_set |-> vector_store.set,
                index |-> vector_store.docs,
                retrieval_ok |-> retrieval_ok, llm_ok |-> llm.ok]
    /\ nqueries' = nqueries + 1
    /\ UNCHANGED <<data_file, api_key, snapshot, similarity, engine, vector_store,
                   built_from, init_outcome, score_vars, scraper_vars>>

\* rag.clear_memory()
ClearMemory ==
    /\ engine = "constructed"
    /\ chat_history' = <<>>
    /\ UNCHANGED <<data_file, api_key, snapshot, similarity, engine, vector_store,
                   built_from, init_outcome, call, last_docs, result, nqueries,
                   score_vars, scraper_vars>>

Next ==
    \/ Construct
    \/ \E f \in BOOLEAN, e \in BOOLEAN : CreateVectorStore(f, e)
    \/ \E f \in BOOLEAN, e \in BOOLEAN : Initialize(f, e)
    \/ \E q \in EngineQuestions, e \in QueryEnvs : Query(q, e.retrieval_ok, e.llm)
    \/ ClearMemory

Spec == Init /\ [][Next]_vars

---------------------------------------------------------------------------
(* A chat session: one engine initialized on CorpusSmall answers up to      *)
(* MaxChat questions, with clear_memory calls in between                    *)

\* the engine after initialize_simple_rag_system created the index of
\* CorpusSmall and saved its snapshot
InitChat ==
    /\ data_file = [exists |-> TRUE, lines |-> CorpusSmall]
    /\ api_key = TRUE
    /\ snapshot = [state |-> "ok", docs |-> NewIndex(LoadLines(CorpusSmall))]
    /\ similarity = [rev |-> FALSE, rot |-> 0]
    /\ engine = "constructed"
    /\ vector_store = [set |-> TRUE, docs |-> NewIndex(LoadLines(CorpusSmall))]
    /\ built_from = "created"
    /\ init_outcome = "returned"
    /\ chat_history = <<>>
    /\ call = NoCall
    /\ last_docs = <<>>
    /\ result = NoCall
    /\ nqueries = 0
    /\ ScoreIdle
    /\ ScraperIdle
    /\ HashIdle

\* rag.query(question) in a session; `call` also keeps the question asked and
\* the text the collaborator returned
ChatQuery(question, retrieval_ok, llm) ==
    /\ engine = "constructed"
    /\ nqueries < MaxChat
    /\ LET run == QueryRun(vector_store, chat_history, similarity, question,
                           retrieval_ok, llm)
       IN  /\ result' = QueryReturn(run)
           /\ chat_history' = run.history
           /\ last_docs' = run.relevant
    /\ call' = [called |-> TRUE, store_set |-> vector_store.set,
                index |-> vector_store.docs,
                retrieval_ok |-> retrieval_ok, llm_ok |-> llm.ok,
                question |-> question, content |-> llm.content]
    /\ nqueries' = nqueries + 1
    /\ UNCHANGED <<data_file, api_key, snapshot, similarity, engine, vector_store,
                   built_from, init_outcome, score_vars, scraper_vars>>

NextChat ==
    \/ \E q \in {<<"x">>, <<"puad", "hua">>},
          e \in {[retrieval_ok |-> FALSE, llm |-> LLMFails],
                 [retrieval_ok |-> TRUE, llm |-> LLMFails],
                 [retrieval_ok |-> TRUE, llm |-> [ok |-> TRUE, content |-> LLMPlain]]} :
          ChatQuery(q, e.retrieval_ok, e.llm)
    \/ ClearMemory

SpecChat == InitChat /\ [][NextChat]_vars

---------------------------------------------------------------------------
(* Claims about the engine, checked under Spec *)

\* the last call of query returned a success result
Succeeded == call.called /\ "success" \in DOMAIN result /\ result.success

DoctorPositions(docs) == {i \in 1..Len(docs) : IsDoctorAnswer(docs[i])}

\* C1: get_symptom_based_matches returns at most 6 doctor-answer documents
\* followed by at most 4 other documents: every doctor-answer document comes
\* before every other document and there are never more than 10.
C1_MatchShape ==
    LET D == DoctorPositions(last_docs)
        O == (1..Len(last_docs)) \ D
    IN  /\ Cardinality(D) <= 6
        /\ Cardinality(O) <= 4
        /\ Len(last_docs) <= 10
        /\ \A i \in D, j \in O : i < j

\* C1 witness: the retriever returned more than 6 doctor answers and the
\* ranked list holds 6 of them, followed by other documents.
C1_Witness ==
    /\ Succeeded
    /\ Cardinality(DoctorPositions(Retrieve(call.index, similarity, 10))) > 6
    /\ Cardinality(DoctorPositions(last_docs)) = 6
    /\ Len(last_docs) > 6

RECURSIVE DedupSeq(_, _)
\* s without the empty string and without repeats, first occurrences kept
DedupSeq(s, seen) ==
    IF s = <<>> THEN <<>>
    ELSE IF Head(s) = "" \/ Head(s) \in seen THEN DedupSeq(Tail(s), seen)
         ELSE <<Head(s)>> \o DedupSeq(Tail(s), seen \cup {Head(s)})

\* the URLs of the disease candidates, then of the doctor-history entries
EvidenceURLs ==
    [i \in 1..Len(result.disease_predictions) |-> result.disease_predictions[i].forum_url]
    \o [i \in 1..Len(result.doctor_history) |-> result.doctor_history[i].forum_url]

\* the URLs cited in the canonical reference section of the returned answer
CitedURLs ==
    LET section == IF Contains(result.answer, ReferenceHeader)
                   THEN AfterFirst(result.answer, ReferenceHeader) ELSE <<>>
    IN  SelectSeq2(section, {i \in 2..Len(section) : section[i - 1] = LINK})

\* C5: the citation list appended to the answer has no two entries with the
\* same URL, exactly 5 entries when the two evidence lists hold 5 or more
\* distinct URLs and as many entries as distinct URLs otherwise; disease
\* candidates come first, doctor-history entries second, first occurrence wins.
\* (An entry with an empty URL has no URL.)
C5_Citations ==
    Succeeded =>
        LET distinct == DedupSeq(EvidenceURLs, {})
        IN  /\ \A i, j \in 1..Len(CitedURLs) : i # j => CitedURLs[i] # CitedURLs[j]
            /\ Len(distinct) >= 5 => Len(CitedURLs) = 5
            /\ Len(distinct) < 5 => Len(CitedURLs) = Len(distinct)
            /\ CitedURLs = SubSeq(distinct, 1, Len(CitedURLs))

\* C5 witness: three disease candidates and three doctor-history entries with
\* six distinct URLs, five of them cited.
C5_Witness ==
    /\ Succeeded
    /\ Len(DedupSeq(EvidenceURLs, {})) = 6
    /\ Len(CitedURLs) = 5

\* C6: the answer of a successful query holds no reference section produced
\* by the collaborator: ahead of the canonical reference section (in the whole
\* answer when there is none) the reference marker does not occur.
C6_NoCollaboratorSection ==
    Succeeded =>
        ~Contains(BeforeFirst(result.answer, ReferenceHeader), <<REFMARK>>)

\* C7: query never raises: it returns success = false with an error when the
\* index is uninitialized or the retriever or the collaborator fails, and
\* success = true otherwise.
C7_QueryNeverRaises ==
    call.called =>
        /\ "success" \in DOMAIN result
        /\ result.success <=> (call.store_set /\ call.retrieval_ok /\ call.llm_ok)
        /\ ~result.success => "error" \in DOMAIN result

\* C7 witness: the collaborator failed on an initialized index and query
\* returned a failure result.
C7_Witness ==
    /\ call.called
    /\ call.store_set /\ call.retrieval_ok /\ ~call.llm_ok
    /\ "success" \in DOMAIN result /\ ~result.success

\* C8: a successful result has at most 5 sources, 3 disease predictions and
\* 3 doctor-history entries, and its matched-case count is the number of
\* ranked documents, at most 10.
C8_ResultShape ==
    Succeeded =>
        /\ Len(result.sources) <= 5
        /\ Len(result.disease_predictions) <= 3
        /\ Len(result.doctor_history) <= 3
        /\ result.matched_cases = Len(last_docs)
        /\ result.matched_cases <= 10

\* C8 witness: a result with 5 sources, 3 predictions and 3 history entries
\* out of more than 5 ranked documents.
C8_Witness ==
    /\ Succeeded
    /\ Len(result.sources) = 5
    /\ Len(result.disease_predictions) = 3
    /\ Len(result.doctor_history) = 3
    /\ result.matched_cases > 5

\* the corpus file holds no usable record: it is missing, or no line of it is
\* an object with a non-empty title and a non-empty content
NoUsableRecord ==
    \/ ~data_file.exists
    \/ \A i \in 1..Len(data_file.lines) :
          \/ data_file.lines[i].kind # "object"
          \/ Get(data_file.lines[i].data, "title", <<>>) = <<>>
          \/ Get(data_file.lines[i].data, "content", <<>>) = <<>>

PlaceholderIndex == << [page_content |-> <<"Placeholder">>, metadata |-> EmptyDict] >>

\* C9 as stated: with an empty corpus, whenever create_vector_store has
\* succeeded the index holds exactly one placeholder document.
C9_AlwaysPlaceholder ==
    (NoUsableRecord /\ built_from \in {"loaded", "created"}) =>
        vector_store.docs = PlaceholderIndex

\* C9, amended: with an empty corpus, when create_vector_store builds the
\* index (it loads no persisted snapshot) the index holds exactly one
\* placeholder document, and a query on that index with working collaborators
\* returns success with no source, no disease prediction and no doctor history.
C9_EmptyCorpus ==
    /\ (NoUsableRecord /\ built_from = "created") =>
          /\ vector_store.set
          /\ vector_store.docs = PlaceholderIndex
    /\ (call.called /\ call.store_set /\ call.index = PlaceholderIndex
        /\ call.retrieval_ok /\ call.llm_ok) =>
          /\ Succeeded
          /\ result.sources = <<>>
          /\ result.disease_predictions = <<>>
          /\ result.doctor_history = <<>>

\* C9 witness: the index was built from an empty corpus and a query on it
\* succeeded.
C9_Witness ==
    /\ NoUsableRecord
    /\ built_from = "created"
    /\ Succeeded
    /\ call.index = PlaceholderIndex

\* C10: initializing the engine with a missing corpus file fails: the
\* initializer raises and no engine with a usable index is returned.
C10_MissingCorpusFails ==
    (~data_file.exists /\ init_outcome # "none") =>
        /\ init_outcome = "raised"
        /\ ~vector_store.set

---------------------------------------------------------------------------
(* The scoring probe: _extract_symptom_keywords and                        *)
(* _calculate_symptom_relevance applied to drawn questions and documents   *)

ScoreTokens == {"puad", "hua", "khai", "x"}

\* questions with 0, 1, 2 and 3 extracted keywords
ScoreQuestions ==
    { <<>>, <<"x">>, <<"puad">>, <<"khai", "x">>, <<"hua", "puad">>,
      <<"puad", "hua">>, <<"x", "puad", "hua", "khai">> }

ScoreTitles == { <<>>, <<"x">>, <<"puad">>, <<"puad", "hua">>, <<"khai", "puad", "hua">> }

\* the metadata load_documents and create_vector_store give a document:
\* a question document, a doctor-answer document, the placeholder's empty dict
ScoreMetadata ==
    {EmptyDict}
    \cup {[title |-> t, content_type |-> "question"] : t \in ScoreTitles}
    \cup {[title |-> t, content_type |-> "doctor_answer", likes |-> l] :
             t \in ScoreTitles, l \in (-1)..MaxLikes}

ScoreDocs ==
    {[page_content |-> c, metadata |-> m] :
        c \in SeqsUpTo(ScoreTokens, MaxLen), m \in ScoreMetadata}

EngineIdle ==
    /\ data_file = [exists |-> FALSE, lines |-> <<>>]
    /\ api_key = FALSE
    /\ snapshot = NoSnapshot
    /\ similarity = [rev |-> FALSE, rot |-> 0]
    /\ EngineFresh

InitScore ==
    /\ EngineIdle
    /\ sc_pc = "input"
    /\ sc_question \in ScoreQuestions
    /\ sc_doc \in ScoreDocs
    /\ sc_symptoms = <<>>
    /\ sc_score = [num |-> 0, den |-> 1]
    /\ ScraperIdle
    /\ HashIdle

\* symptom_keywords = self._extract_symptom_keywords(question)
ScExtract ==
    /\ sc_pc = "input"
    /\ sc_symptoms' = ExtractSymptomKeywords(sc_question)
    /\ sc_pc' = "extracted"
    /\ UNCHANGED <<engine_vars, scraper_vars, sc_question, sc_doc, sc_score>>

\* relevance_score = self._calculate_symptom_relevance(doc, symptom_keywords)
ScScore ==
    /\ sc_pc = "extracted"
    /\ sc_score' = CalculateSymptomRelevance(sc_doc, sc_symptoms)
    /\ sc_pc' = "scored"
    /\ UNCHANGED <<engine_vars, scraper_vars, sc_question, sc_doc, sc_symptoms>>

NextScore == ScExtract \/ ScScore

SpecScore == InitScore /\ [][NextScore]_vars

---------------------------------------------------------------------------
(* Claims about the score, checked under SpecScore *)

ScIsDoctor == Get(sc_doc.metadata, "content_type", "none") = "doctor_answer"
ScLikes == Get(sc_doc.metadata, "likes", 0)
\* the keywords of the pattern list that occur in the lower-cased question
ScKeywords ==
    {p \in {symptom_patterns[i] : i \in 1..Len(symptom_patterns)} :
        Contains(Lower(sc_question), p)}
ScContentMatches ==
    Cardinality({p \in ScKeywords : Contains(Lower(sc_doc.page_content), p)})
ScTitleMatches ==
    Cardinality({p \in ScKeywords :
        Contains(Lower(Get(sc_doc.metadata, "title", <<>>)), p)})
\* the bonuses in tenths: 0.3 for a doctor answer, min(likes * 0.1, 0.5) for likes > 0
ScBonusTenths ==
    (IF ScIsDoctor THEN 3 ELSE 0) + (IF ScLikes > 0 THEN Min(ScLikes, 5) ELSE 0)

\* C2: for every document, keyword list and likes value the score returned by
\* _calculate_symptom_relevance satisfies 0 <= score <= 3.0.
C2_ScoreClamped ==
    sc_pc = "scored" =>
        /\ sc_score.den > 0
        /\ 0 <= sc_score.num
        /\ sc_score.num <= 3 * sc_score.den

\* C2 witness: a doctor answer matching every keyword in body and title, with
\* likes, has been scored: its unclamped score would exceed 3.0.
C2_Witness ==
    /\ sc_pc = "scored"
    /\ Len(sc_symptoms) = 2
    /\ ScContentMatches = 2
    /\ ScTitleMatches = 2
    /\ ScIsDoctor
    /\ ScLikes > 0
    /\ sc_score.num = 3 * sc_score.den

\* C3: with n > 0 extracted keywords the score equals
\* min(3.0, (contentMatches + 2 * titleMatches) / n + 0.3 [doctor answer]
\*          + min(likes * 0.1, 0.5) [likes > 0]).
C3_ScoreFormula ==
    (sc_pc = "scored" /\ Cardinality(ScKeywords) > 0) =>
        LET n == Cardinality(ScKeywords)
            \* the claimed score in units of 1/(10 * n)
            claimed == Min(30 * n,
                           10 * (ScContentMatches + 2 * ScTitleMatches)
                           + n * ScBonusTenths)
        IN  sc_score.num * (10 * n) = claimed * sc_score.den

\* C3 witness: a scored document with a title match, a body match, three
\* keywords and a score below the cap.
C3_Witness ==
    /\ sc_pc = "scored"
    /\ Cardinality(ScKeywords) = 3
    /\ ScTitleMatches = 1
    /\ ScContentMatches = 2
    /\ ScIsDoctor
    /\ ScLikes = 2
    /\ sc_score.num < 3 * sc_score.den

\* C4: when no symptom keyword is extracted, the score is the base 0.5 plus
\* the bonuses: +0.3 for a doctor answer and +min(likes * 0.1, 0.5) for likes > 0.
C4_BonusesOnBase ==
    (sc_pc = "scored" /\ sc_symptoms = <<>>) =>
        sc_score.num * 10 = (5 + ScBonusTenths) * sc_score.den

---------------------------------------------------------------------------
(* The scraper: its operations on one AgnosForumScraper object *)

\* number of scraper operations in one behaviour
MaxOps == 2

InitScraper ==
    /\ \E sc \in Scenarios :
          /\ site = sc.site
          /\ max_threads = sc.max_threads
          /\ delay = sc.delay
    /\ output_file \in ScraperFiles
    /\ existing_data = {}
    /\ existing_thread_ids = {}
    /\ sop = [op |-> "none"]
    /\ nops = 0
    /\ HashIdle
    /\ EngineIdle
    /\ ScoreIdle

\* scraper.load_existing_data()
LoadExisting ==
    /\ nops < MaxOps
    /\ LET r == LoadExistingData(output_file, existing_data, existing_thread_ids)
       IN  /\ existing_data' = r.existing_data
           /\ existing_thread_ids' = r.existing_thread_ids
           /\ sop' = [op |-> "load_existing_data", pre_file |-> output_file,
                      pre_index |-> existing_data, pre_ids |-> existing_thread_ids,
                      raised |-> r.raised]
    /\ nops' = nops + 1
    /\ UNCHANGED <<site, max_threads, delay, output_file, hp, engine_vars, score_vars>>

\* scraper.scrape_forum_list()
ListForum ==
    /\ nops < MaxOps
    /\ sop' = [op |-> "scrape_forum_list",
               listing |-> ScrapeForumList(site, max_threads, delay)]
    /\ nops' = nops + 1
    /\ UNCHANGED <<site, max_threads, delay, output_file, existing_data,
                   existing_thread_ids, hp, engine_vars, score_vars>>

\* scraper.scrape_thread_detail(thread_info), for a thread of the listing
Detail(thread_info) ==
    /\ nops < MaxOps
    /\ sop' = [op |-> "scrape_thread_detail", thread_info |-> thread_info,
               detail |-> DetailOf(site, thread_info),
               records |-> ScrapeThreadDetail(thread_info, DetailOf(site, thread_info))]
    /\ nops' = nops + 1
    /\ UNCHANGED <<site, max_threads, delay, output_file, existing_data,
                   existing_thread_ids, hp, engine_vars, score_vars>>

\* scraper.save_data(data, mode)
Save(data, mode) ==
    /\ nops < MaxOps
    /\ LET r == SaveData(output_file, existing_data, data, mode)
       IN  /\ output_file' = r.file
           /\ existing_data' = r.existing_data
    /\ sop' = [op |-> "save_data",
               save |-> SaveRecord(output_file, existing_data, data, mode)]
    /\ nops' = nops + 1
    /\ UNCHANGED <<site, max_threads, delay, existing_thread_ids, hp, engine_vars,
                   score_vars>>

\* scraper.run(mode)
Run(mode) ==
    /\ nops < MaxOps
    /\ LET r == RunScraper(mode, site, max_threads, delay, output_file, existing_data,
                           existing_thread_ids)
       IN  /\ output_file' = r.file
           /\ existing_data' = r.existing_data
           /\ existing_thread_ids' = r.existing_thread_ids
           /\ sop' = [op |-> "run", mode |-> mode, pre_ids |-> existing_thread_ids,
                      run |-> [outcome |-> r.outcome, listing |-> r.listing,
                               filtered |-> r.filtered, threads |-> r.threads,
                               all_data |-> r.all_data],
                      save |-> r.save, prev |-> [op |-> sop.op,
                                mode |-> IF sop.op = "run" THEN sop.mode ELSE "none",
                                outcome |-> IF sop.op = "run" THEN sop.run.outcome
                                            ELSE "none",
                                threads |-> IF sop.op = "run" THEN sop.run.threads
                                            ELSE <<>>]]
    /\ nops' = nops + 1
    /\ UNCHANGED <<site, max_threads, delay, hp, engine_vars, score_vars>>

NextScraper ==
    \/ LoadExisting
    \/ ListForum
    \/ \E i \in 1..Len(ScrapeForumList(site, max_threads, delay).threads) :
          Detail(ScrapeForumList(site, max_threads, delay).threads[i])
    \/ \E data \in SaveBatches, mode \in {"w", "a"} : Save(data, mode)
    \/ \E mode \in {"full", "update"} : Run(mode)

SpecScraper == InitScraper /\ [][NextScraper]_vars

---------------------------------------------------------------------------
(* The fingerprint probe: generate_content_hash applied to two records *)

InitHash ==
    /\ hp \in {[pc |-> "input", a |-> a, b |-> b, hash_a |-> <<>>, hash_b |-> <<>>,
                hash_a_again |-> <<>>] : a \in HashRecords, b \in HashRecords}
    /\ ScraperIdle
    /\ EngineIdle
    /\ ScoreIdle

\* content_hash = self.generate_content_hash(...), on a, on b and on a again
HashBoth ==
    /\ hp.pc = "input"
    /\ hp' = [hp EXCEPT !.pc = "hashed",
                        !.hash_a = GenerateContentHash(hp.a),
                        !.hash_b = GenerateContentHash(hp.b),
                        !.hash_a_again = GenerateContentHash(hp.a)]
    /\ UNCHANGED <<site, max_threads, delay, output_file, existing_data,
                   existing_thread_ids, sop, nops, engine_vars, score_vars>>

SpecHash == InitHash /\ [][HashBoth]_vars

---------------------------------------------------------------------------
(* The chunking probe: chunk_text applied to one text with one chunk size *)

\* texts of the chunking probe have at most MaxText characters
MaxText == 5
\* chunk sizes of the chunking probe range over 1 .. MaxChunk
MaxChunk == 3

InitChunk ==
    /\ hp \in {[pc |-> "text", text |-> t, chunk_size |-> s, chunks |-> <<>>] :
                  t \in SeqsUpTo({"a", "b", " ", NL}, MaxText), s \in 1..MaxChunk}
    /\ ScraperIdle
    /\ EngineIdle
    /\ ScoreIdle

\* chunks = self.chunk_text(text, chunk_size)
ChunkProbe ==
    /\ hp.pc = "text"
    /\ hp' = [hp EXCEPT !.pc = "chunked", !.chunks = ChunkText(hp.text, hp.chunk_size)]
    /\ UNCHANGED <<site, max_threads, delay, output_file, existing_data,
                   existing_thread_ids, sop, nops, engine_vars, score_vars>>

SpecChunk == InitChunk /\ [][ChunkProbe]_vars

---------------------------------------------------------------------------
(* Claims about the scraper, checked under SpecScraper and SpecHash *)

\* the save_data call of the last operation, made directly or by run
LastSave == IF sop.op \in {"save_data", "run"} THEN sop.save ELSE [called |-> FALSE]

\* the fingerprints of a batch, in batch order
Fingerprints(data) == [i \in 1..Len(data) |-> GenerateContentHash(data[i])]

\* the positions of a batch whose fingerprint is neither in the index nor
\* at an earlier position of the batch
FirstFresh(data, index) ==
    {i \in 1..Len(data) :
        /\ Fingerprints(data)[i] \notin index
        /\ \A j \in 1..(i - 1) : Fingerprints(data)[j] # Fingerprints(data)[i]}

\* the last n lines of a file
LastLines(file, n) == SubSeq(file.lines, Len(file.lines) - n + 1, Len(file.lines))

\* C11: save_data writes as many records as the batch has distinct
\* fingerprints that were not in the fingerprint index before the call, counts
\* every other record of the batch as a duplicate and does not write it; of
\* records with the same fingerprint the first one is the one written.
C11_SaveDedup ==
    LastSave.called =>
        LET s == LastSave
            fresh == {Fingerprints(s.data)[i] : i \in 1..Len(s.data)} \ s.pre_index
            firsts == SelectSeq2(s.data, FirstFresh(s.data, s.pre_index))
            written == LastLines(s.post_file, s.new_records)
        IN  /\ s.new_records = Cardinality(fresh)
            /\ s.duplicates = Len(s.data) - Cardinality(fresh)
            /\ Len(written) = Len(firsts)
            /\ \A k \in 1..Len(written) :
                  /\ written[k].kind = "object"
                  /\ written[k].data.thread_id = firsts[k].thread_id
                  /\ written[k].data.content = firsts[k].content

\* C11 witness: a batch of two records with the same fingerprint, which the
\* index did not hold, was saved: one record accepted, one duplicate.
C11_Witness ==
    /\ LastSave.called
    /\ Len(LastSave.data) = 2
    /\ Fingerprints(LastSave.data)[1] = Fingerprints(LastSave.data)[2]
    /\ Fingerprints(LastSave.data)[1] \notin LastSave.pre_index
    /\ LastSave.new_records = 1
    /\ LastSave.duplicates = 1

\* C12: an update run that follows an update run on the same listing, with
\* nothing done to the corpus between the two, finds no new thread:
\* get_new_threads_only returns the empty list the second time.
C12_SecondRunEmpty ==
    (/\ sop.op = "run" /\ sop.mode = "update"
     /\ sop.run.outcome \in {"up_to_date", "completed"}
     /\ sop.prev.op = "run" /\ sop.prev.mode = "update"
     /\ sop.prev.outcome \in {"up_to_date", "completed"}) =>
        sop.run.threads = <<>>

\* C13: load_existing_data never raises; it adds the fingerprint and the
\* thread id of every well-formed record line to the two indices and nothing
\* for any other line.
C13_LoadNeverRaises ==
    sop.op = "load_existing_data" =>
        LET lines == IF sop.pre_file.exists THEN sop.pre_file.lines ELSE <<>>
            good == {i \in 1..Len(lines) : lines[i].kind = "object"}
        IN  /\ ~sop.raised
            /\ existing_data =
                  sop.pre_index \cup {GenerateContentHash(lines[i].data) : i \in good}
            /\ existing_thread_ids =
                  sop.pre_ids \cup {lines[i].data.thread_id :
                                      i \in {j \in good : "thread_id" \in DOMAIN lines[j].data}}

\* two records have the same thread_id and the same first 100 characters of content
SameKey(a, b) ==
    /\ ("thread_id" \in DOMAIN a) = ("thread_id" \in DOMAIN b)
    /\ ("thread_id" \in DOMAIN a) => a.thread_id = b.thread_id
    /\ Take(Get(a, "content", <<>>), 100) = Take(Get(b, "content", <<>>), 100)

\* C14: the fingerprint of a record is the same on every call, and two records
\* have the same fingerprint if and only if they have the same thread_id and
\* the same first 100 characters of content.
C14_FingerprintKey ==
    hp.pc = "hashed" =>
        /\ hp.hash_a = hp.hash_a_again
        /\ (hp.hash_a = hp.hash_b) <=> SameKey(hp.a, hp.b)

\* C15: in append mode save_data leaves the lines the file held before the
\* call as a prefix of the file; in overwrite mode the file afterwards holds
\* the records accepted by the call and nothing else.
C15_SaveModes ==
    LastSave.called =>
        LET s == LastSave
            old == IF s.pre_file.exists THEN s.pre_file.lines ELSE <<>>
            new == s.post_file.lines
        IN  /\ s.post_file.exists
            /\ s.mode = "a" =>
                  /\ Len(new) = Len(old) + s.new_records
                  /\ SubSeq(new, 1, Len(old)) = old
            /\ s.mode = "w" =>
                  /\ Len(new) = s.new_records
                  /\ \A k \in 1..Len(new) :
                        \E i \in 1..Len(s.data) : new[k].data = SerializeTags(s.data[i])

\* C15 witness: records were appended to a file that held lines.
C15_Witness ==
    /\ LastSave.called
    /\ LastSave.mode = "a"
    /\ LastSave.pre_file.exists
    /\ Len(LastSave.pre_file.lines) >= 3
    /\ LastSave.new_records >= 2
    /\ LastSave.duplicates >= 1

\* the last operation listed the forum
HasListing ==
    \/ sop.op = "scrape_forum_list"
    \/ sop.op = "run" /\ sop.run.outcome # "raised"

LastListing == IF sop.op = "run" THEN sop.run.listing ELSE sop.listing

\* the page numbers requested, in request order
RequestedPages ==
    LET gets == SelectSeq2(LastListing.events,
                    {i \in 1..Len(LastListing.events) : LastListing.events[i].ev = "get"})
    IN  [i \in 1..Len(gets) |-> gets[i].arg]

\* the thread ids of the linked articles of listing page n, in page order
LinkedIds(n) ==
    LET linked == SelectSeq2(PageAt(site, n).articles,
                      {i \in 1..Len(PageAt(site, n).articles) :
                          PageAt(site, n).articles[i].linked})
    IN  [i \in 1..Len(linked) |-> linked[i].thread_id]

RECURSIVE ListedThrough(_)
\* the thread ids listed on pages 1..n, page after page
ListedThrough(n) == IF n <= 0 THEN <<>> ELSE ListedThrough(n - 1) \o LinkedIds(n)

RECURSIVE FirstOccurrences(_, _)
\* s without repeats, first occurrences kept
FirstOccurrences(s, seen) ==
    IF s = <<>> THEN <<>>
    ELSE IF Head(s) \in seen THEN FirstOccurrences(Tail(s), seen)
         ELSE <<Head(s)>> \o FirstOccurrences(Tail(s), seen \cup {Head(s)})

\* C16: the list scrape_forum_list returns holds no thread_id twice, keeps the
\* threads in order of first appearance on the pages requested, and has at
\* most max_threads entries.
C16_ListingDistinct ==
    HasListing =>
        LET ids == [i \in 1..Len(LastListing.threads) |-> LastListing.threads[i].thread_id]
            listed == FirstOccurrences(ListedThrough(Len(RequestedPages)), {})
        IN  /\ \A i, j \in 1..Len(ids) : i # j => ids[i] # ids[j]
            /\ Len(ids) <= max_threads
            /\ Len(ids) <= Len(listed)
            /\ ids = SubSeq(listed, 1, Len(ids))

\* C16 witness: a thread was listed twice on one page and another on two
\* pages, and the three distinct threads were returned.
C16_Witness ==
    /\ HasListing
    /\ Len(RequestedPages) >= 2
    /\ Len(LinkedIds(1)) > Len(FirstOccurrences(LinkedIds(1), {}))
    /\ \E i \in 1..Len(LinkedIds(2)) :
          \E j \in 1..Len(LinkedIds(1)) : LinkedIds(2)[i] = LinkedIds(1)[j]
    /\ Len(LastListing.threads) = 3

\* the number of threads collected once pages 1..n are consumed
CollectedThrough(n) == Min(max_threads, Len(FirstOccurrences(ListedThrough(n), {})))

\* the number of new threads page n yields
NewOn(n) == CollectedThrough(n) - CollectedThrough(n - 1)

\* C17: scrape_forum_list requests pages 1, 2, 3, ... in order, each once and
\* at most 10 of them; page n+1 is requested only if page n was fetched
\* without error, held at least one item, left fewer than max_threads threads
\* collected, n < 10, and pages n-1 and n did not both yield zero new threads.
C17_PageOrder ==
    HasListing =>
        /\ \A i \in 1..Len(RequestedPages) : RequestedPages[i] = i
        /\ Len(RequestedPages) <= 10
        /\ \A n \in 1..(Len(RequestedPages) - 1) :
              /\ PageAt(site, n).ok
              /\ PageAt(site, n).articles # <<>>
              /\ CollectedThrough(n) < max_threads
              /\ n < 10
              /\ ~(n >= 2 /\ NewOn(n - 1) = 0 /\ NewOn(n) = 0)

\* C17 witness: ten pages were requested, each yielding a new thread, and
\* fewer than max_threads threads were collected.
C17_Witness ==
    /\ HasListing
    /\ Len(RequestedPages) = 10
    /\ Len(LastListing.threads) = 10
    /\ max_threads > 10

\* C18: between two consecutive listing-page requests a sleep of the
\* configured delay is taken: every request but the first comes right after
\* a sleep of self.delay that follows the request before it.
C18_DelayBetweenPages ==
    HasListing =>
        LET events == LastListing.events
        IN  \A i \in 1..Len(events) :
               (events[i].ev = "get" /\ i > 1) =>
                  /\ events[i - 1] = SleepEvent(delay)
                  /\ i > 2
                  /\ events[i - 2].ev = "get"

\* C18 witness: three pages were requested with a delay of 2.
C18_Witness ==
    /\ HasListing
    /\ Len(RequestedPages) = 3
    /\ delay = 2
    /\ Len(LastListing.events) = 5

\* the detail fetch of a thread fails: no structured payload, and fetching the
\* thread page raises
DetailFails(thread_info) ==
    /\ ~DetailOf(site, thread_info).api.found
    /\ ~DetailOf(site, thread_info).html.ok

\* the records of all_data made for a failed detail fetch of the thread
ErrorRecords(all_data, thread_info) ==
    {k \in 1..Len(all_data) :
        /\ "error" \in DOMAIN all_data[k]
        /\ all_data[k].thread_id = thread_info.thread_id}

\* C19: when the detail fetch of a thread fails, scrape_thread_detail returns
\* exactly one record built from the listing data, with content_type
\* question_preview, no doctor comment and an error field; a run is not
\* aborted by it: every thread of the run is processed and the failed ones
\* leave their one record in the data of the run.
C19_FailedDetail ==
    /\ (sop.op = "scrape_thread_detail" /\ DetailFails(sop.thread_info)) =>
          /\ Len(sop.records) = 1
          /\ sop.records[1].content_type = "question_preview"
          /\ sop.records[1].doctor_comments = <<>>
          /\ "error" \in DOMAIN sop.records[1]
          /\ sop.records[1].thread_id = sop.thread_info.thread_id
          /\ sop.records[1].url = sop.thread_info.url
          /\ sop.records[1].content = Get(sop.thread_info, "content_preview", <<>>)
    /\ (sop.op = "run" /\ sop.run.outcome = "completed") =>
          /\ \A i \in 1..Len(sop.run.threads) :
                DetailFails(sop.run.threads[i]) =>
                   Cardinality(ErrorRecords(sop.run.all_data, sop.run.threads[i])) = 1
          /\ \A k \in 1..Len(sop.run.all_data) :
                "error" \in DOMAIN sop.run.all_data[k] =>
                   \E i \in 1..Len(sop.run.threads) :
                      /\ DetailFails(sop.run.threads[i])
                      /\ sop.run.all_data[k].thread_id = sop.run.threads[i].thread_id

\* C19 witness: in a completed run the detail fetch of a thread failed, its
\* error record is in the data of the run and records of a later thread
\* follow it.
C19_Witness ==
    /\ sop.op = "run"
    /\ sop.run.outcome = "completed"
    /\ \E k \in 1..(Len(sop.run.all_data) - 1) :
          /\ "error" \in DOMAIN sop.run.all_data[k]
          /\ sop.run.all_data[k + 1].thread_id # sop.run.all_data[k].thread_id

\* C20: scrape_thread_detail returns at least one record for every thread
\* summary, whichever strategy is taken and whatever the payload.
C20_NeverDropsThread ==
    sop.op = "scrape_thread_detail" => Len(sop.records) >= 1

---------------------------------------------------------------------------
(* Claims about the documents derived from the corpus, checked under Spec *)

\* the number of documents of one kind in a list
CountType(docs, content_type) ==
    Cardinality({ i \in 1..Len(docs) : docs[i].metadata.content_type = content_type })

\* the text of a doctor comment of either shape
CommentText(comment) ==
    IF comment.type = "dict" THEN Get(comment.value, "content_text", <<>>)
    ELSE comment.value

\* the number of doctor comments (object or string) whose trimmed text is
\* longer than 10 characters
LongComments(comments) ==
    Cardinality({ i \in 1..Len(comments) :
                    /\ comments[i].type \in {"dict", "str"}
                    /\ Len(Strip(CommentText(comments[i]))) > 10 })

\* C23: for every ForumRecord line of the corpus, load_documents yields exactly
\* one question document and exactly one doctor-answer document per doctor
\* comment whose trimmed text is longer than 10 characters, records with an
\* empty title or an empty content included.
C23_DocsPerRecord ==
    built_from = "created" =>
        \A i \in 1..Len(data_file.lines) :
            data_file.lines[i].kind = "object" =>
                LET data == data_file.lines[i].data
                    docs == RecordDocs(data)
                IN  /\ CountType(docs, "question") = 1
                    /\ CountType(docs, "doctor_answer")
                           = LongComments(Get(data, "doctor_comments", <<>>))

---------------------------------------------------------------------------
(* Claims about the disease predictions and the doctor history of a query, *)
(* checked under Spec                                                      *)

\* the positions of the ranked documents that carry a disease candidate: a
\* non-empty title and URL, and a title matching a disease-keyword group
CandidateAt(docs) ==
    { i \in 1..Len(docs) :
        /\ Get(docs[i].metadata, "title", <<>>) # <<>>
        /\ Get(docs[i].metadata, "url", "") # ""
        /\ IsDiseaseTitle(docs[i].metadata.title) }

\* the candidates whose title no better-ranked candidate carries
FirstCandidateAt(docs) ==
    { i \in CandidateAt(docs) :
        \A j \in CandidateAt(docs) :
            j < i => docs[j].metadata.title # docs[i].metadata.title }

\* C24: the disease predictions of a successful query are made from the ranked
\* documents with a non-empty title and URL whose title matches a
\* disease-keyword group only; the disease name is the whole title; they are the
\* first 3 distinct names in rank order of first occurrence (a later candidate
\* never displaces an earlier one), so no two share a name and there are at
\* most 3.
C24_DiseasePredictions ==
    (call.called /\ result.success) =>
        LET firsts == SelectSeq2(last_docs, FirstCandidateAt(last_docs))
            p == result.disease_predictions
        IN  /\ Len(p) = Min(3, Len(firsts))
            /\ \A k \in 1..Len(p) :
                   /\ p[k].disease_name = firsts[k].metadata.title
                   /\ p[k].forum_title = firsts[k].metadata.title
                   /\ p[k].forum_url = firsts[k].metadata.url
            /\ \A k, l \in 1..Len(p) : k # l => p[k].disease_name # p[l].disease_name

\* a successful query whose ranked documents hold four distinct disease names,
\* one of them twice, and documents that carry no candidate
C24_Witness ==
    /\ call.called /\ result.success
    /\ Cardinality(FirstCandidateAt(last_docs)) > 3
    /\ CandidateAt(last_docs) # FirstCandidateAt(last_docs)
    /\ Cardinality(CandidateAt(last_docs)) < Len(last_docs)
    /\ Len(result.disease_predictions) = 3

\* the positions of the ranked documents that give a history entry: a
\* doctor-answer document whose cleaned response is longer than 20 characters
HistoryAt(docs) ==
    { i \in 1..Len(docs) :
        /\ IsDoctorAnswer(docs[i])
        /\ Len(DoctorResponse(docs[i].page_content)) > 20 }

\* the number of history positions that come before position i when the
\* entries are ordered by likes, most first, equal likes in input order
LikesRank(docs, i) ==
    Cardinality({ j \in HistoryAt(docs) :
                    \/ Get(docs[j].metadata, "likes", 0) > Get(docs[i].metadata, "likes", 0)
                    \/ /\ Get(docs[j].metadata, "likes", 0) = Get(docs[i].metadata, "likes", 0)
                       /\ j < i })

\* C25: the doctor history of a successful query holds only entries made from
\* doctor-answer documents whose cleaned response is longer than 20 characters,
\* each response cut to at most 300 characters; it holds the 3 entries with the
\* most likes (all of them if there are fewer), sorted by likes descending,
\* entries with equal likes in the order of the ranked documents.
C25_DoctorHistory ==
    (call.called /\ result.success) =>
        LET h == result.doctor_history
        IN  /\ Len(h) = Min(3, Cardinality(HistoryAt(last_docs)))
            /\ \A k \in 1..Len(h) :
                   \E i \in HistoryAt(last_docs) :
                       /\ LikesRank(last_docs, i) = k - 1
                       /\ h[k].response
                              = Take(DoctorResponse(last_docs[i].page_content), 300)
                       /\ Len(h[k].response) <= 300
                       /\ h[k].likes = Get(last_docs[i].metadata, "likes", 0)
                       /\ h[k].forum_url = Get(last_docs[i].metadata, "url", "")
                       /\ h[k].forum_title = Get(last_docs[i].metadata, "title", <<>>)
                       /\ h[k].doctor_name
                              = Get(last_docs[i].metadata, "doctor_name", GenericDoctor)

\* a successful query with more than 3 qualifying doctor answers and a
\* doctor-answer document that gives none, whose history holds two entries with
\* equal likes and a response cut to 300 characters, and whose ranked documents
\* do not come in the order of their likes
C25_Witness ==
    /\ call.called /\ result.success
    /\ Cardinality(HistoryAt(last_docs)) > 3
    /\ \E i \in 1..Len(last_docs) : IsDoctorAnswer(last_docs[i]) /\ i \notin HistoryAt(last_docs)
    /\ \E k \in 1..2 : result.doctor_history[k].likes = result.doctor_history[k + 1].likes
    /\ \E k \in 1..3, i \in HistoryAt(last_docs) :
           /\ LikesRank(last_docs, i) = k - 1
           /\ Len(DoctorResponse(last_docs[i].page_content)) > 300
           /\ Len(result.doctor_history[k].response) = 300
    /\ \E i, j \in HistoryAt(last_docs) :
           i < j /\ LikesRank(last_docs, j) < LikesRank(last_docs, i)

\* C26: the doctor history is deduplicated: when a thread is stored as several
\* chunk records that each carry the thread's doctor comments,
\* get_historical_doctor_comments never returns two entries with the same
\* doctor, the same response and the same forum URL.
C26_HistoryDeduplicated ==
    (call.called /\ result.success) =>
        \A k, l \in 1..Len(result.doctor_history) :
            (/\ result.doctor_history[k].doctor_name = result.doctor_history[l].doctor_name
             /\ result.doctor_history[k].response = result.doctor_history[l].response
             /\ result.doctor_history[k].forum_url = result.doctor_history[l].forum_url)
            => k = l

\* the URLs of the sources, in order
SourceUrls(sources) == [i \in 1..Len(sources) |-> sources[i].url]

\* the first 5 ranked documents that carry metadata
SourceDocs(docs) ==
    SelectSeq2(Take(docs, 5), { i \in 1..Len(docs) : DOMAIN docs[i].metadata # {} })

\* C27 as stated: the sources of a successful query hold no two entries with
\* the same URL, also when a question document and a doctor-answer document, or
\* several chunks, of one thread are among the ranked documents.
C27_SourcesDistinct ==
    (call.called /\ result.success) =>
        \A k, l \in 1..Len(result.sources) :
            result.sources[k].url = result.sources[l].url => k = l

\* C27 as amended: the sources of a successful query are one entry for each of
\* the first 5 ranked documents that carries metadata, in rank order, with the
\* URL and the kind of that document; so two entries have the same URL exactly
\* when two of these documents come from the same thread, and no URL is
\* repeated when they come from different threads.
C27_SourcesPerDocument ==
    (call.called /\ result.success) =>
        LET d == SourceDocs(last_docs)
        IN  /\ Len(result.sources) = Len(d)
            /\ \A k \in 1..Len(d) :
                   /\ result.sources[k].url = Get(d[k].metadata, "url", "")
                   /\ result.sources[k].content_type
                          = Get(d[k].metadata, "content_type", "question")
            /\ (\A k, l \in 1..Len(d) :
                    Get(d[k].metadata, "url", "") = Get(d[l].metadata, "url", "") => k = l)
               => \A k, l \in 1..Len(result.sources) :
                      result.sources[k].url = result.sources[l].url => k = l

\* a successful query with more than 5 ranked documents whose first 5 come
\* from 5 different threads, and so do its 5 sources
C27_Witness ==
    /\ call.called /\ result.success
    /\ Len(last_docs) > 5
    /\ Len(result.sources) = 5
    /\ \A k, l \in 1..5 : result.sources[k].url = result.sources[l].url => k = l

---------------------------------------------------------------------------
(* Claim about the conversation memory, checked under SpecChat *)

\* the last n elements of a sequence
LastOf(s, n) == SubSeq(s, Len(s) - Min(n, Len(s)) + 1, Len(s))

\* C28: over any sequence of query and clear_memory calls on one engine,
\* chat_history never holds more than 10 exchanges; a successful query appends
\* exactly one exchange, its question and the collaborator's text, and keeps
\* the last 10; a failed query leaves chat_history unchanged; clear_memory
\* empties it. So chat_history is the last min(10, n) exchanges of the n
\* successful queries made since the last clear_memory, in order.
C28_ChatHistory ==
    [][ /\ Len(chat_history') <= 10
        /\ (nqueries' = nqueries + 1 /\ result'.success) =>
               chat_history'
                   = LastOf(Append(chat_history,
                                   [user |-> call'.question,
                                    assistant |-> call'.content]), 10)
        /\ (nqueries' = nqueries + 1 /\ ~result'.success) =>
               chat_history' = chat_history
        /\ nqueries' = nqueries => chat_history' = <<>> ]_vars

\* the eleventh query of a session succeeds after ten exchanges with the
\* question <<"x">>: the history holds nine of them and the new one
C28_Witness ==
    /\ nqueries = 11
    /\ result.success
    /\ call.question = <<"puad", "hua">>
    /\ Len(chat_history) = 10
    /\ \A k \in 1..9 : chat_history[k].user = <<"x">>
    /\ chat_history[10].user = <<"puad", "hua">>

---------------------------------------------------------------------------
(* Claims about the scraper's index and its runs, checked under SpecScraper *)

\* the fingerprints of the record lines of a file
FileFingerprints(file) ==
    { GenerateContentHash(file.lines[i].data) :
        i \in { j \in 1..Len(file.lines) : file.lines[j].kind = "object" } }

\* C29: after any sequence of load_existing_data and save_data calls, in
\* either mode, on one scraper, every fingerprint of the in-memory index is the
\* fingerprint of a record line in the corpus file, so no record is counted as
\* a duplicate while no line with its fingerprint is in the file.
C29_IndexInFile == existing_data \subseteq FileFingerprints(output_file)

\* C30: when an update run selects a listed thread as new, fetches its detail
\* through the structured API or the thread page and completes, the update
\* run that follows on the same corpus file and listing does not select the
\* thread again. (The thread ids a scraper holds come from the file only, so
\* the second run of the same scraper selects what a fresh scraper would.)
C30_NotSelectedAgain ==
    (/\ sop.op = "run" /\ sop.mode = "update"
     /\ sop.run.outcome \in {"up_to_date", "completed"}
     /\ sop.prev.op = "run" /\ sop.prev.mode = "update"
     /\ sop.prev.outcome = "completed") =>
        \A i \in 1..Len(sop.prev.threads) :
            ~DetailFails(sop.prev.threads[i]) =>
                \A k \in 1..Len(sop.run.threads) :
                    sop.run.threads[k].thread_id # sop.prev.threads[i].thread_id

\* the requests and sleeps of the last run, in order: those of the listing,
\* then those of the detail loop, a found payload being answered by the
\* endpoint numbered `tried`
LastRunTrace(tried) ==
    sop.run.listing.events \o RunRequests(site, sop.run.threads, delay, tried)

\* C21: during a run the outbound requests are issued one at a time and a
\* sleep of the configured delay lies between every two consecutive requests
\* of any kind (listing page, structured-API lookup, thread page): no request
\* comes right after another.
C21_DelayBetweenRequests ==
    (sop.op = "run" /\ sop.run.outcome = "completed") =>
        \A tried \in 1..ApiEndpoints :
            \A i \in 1..(Len(LastRunTrace(tried)) - 1) :
                LastRunTrace(tried)[i].ev # "sleep" =>
                    /\ LastRunTrace(tried)[i + 1].ev = "sleep"
                    /\ LastRunTrace(tried)[i + 1].arg = delay

---------------------------------------------------------------------------
(* Claim about chunk_text, checked under SpecChunk *)

RECURSIVE WordsOfChunks(_)
\* the words of the chunks, in order
WordsOfChunks(chunks) ==
    IF chunks = <<>> THEN <<>>
    ELSE SplitWords(Head(chunks)) \o WordsOfChunks(Tail(chunks))

\* every chunk holds between 1 and chunk_size words, every chunk but the last
\* exactly chunk_size, and the words of the chunks in order are the words of
\* the text
WholeWordChunks(text, chunk_size, chunks) ==
    /\ \A k \in 1..Len(chunks) :
           /\ Len(SplitWords(chunks[k])) \in 1..chunk_size
           /\ k < Len(chunks) => Len(SplitWords(chunks[k])) = chunk_size
    /\ WordsOfChunks(chunks) = SplitWords(text)

\* C22 as stated: for every text and chunk size s >= 1, every chunk chunk_text
\* returns holds between 1 and s whole words of the text, every chunk but the
\* last holds exactly s words, the words of the chunks in order are the words
\* of the text (none split, lost, repeated or reordered), and a text with no
\* word yields no chunk.
C22_WholeWordChunks ==
    hp.pc = "chunked" =>
        /\ WholeWordChunks(hp.text, hp.chunk_size, hp.chunks)
        /\ SplitWords(hp.text) = <<>> => hp.chunks = <<>>

\* C22 as amended: for every text with at least one word and chunk size
\* s >= 1, every chunk holds between 1 and s whole words of the text, every
\* chunk but the last exactly s, and the words of the chunks in order are the
\* words of the text; the empty text yields no chunk, and a text of whitespace
\* only yields one chunk, the text itself.
C22_ChunksOfWords ==
    hp.pc = "chunked" =>
        IF SplitWords(hp.text) # <<>>
        THEN WholeWordChunks(hp.text, hp.chunk_size, hp.chunks)
        ELSE hp.chunks = IF hp.text = <<>> THEN <<>> ELSE <<hp.text>>

\* a text of three words, two of them separated by a newline, cut into a
\* chunk of two words and a chunk of one
C22_Witness ==
    /\ hp.pc = "chunked"
    /\ hp.chunk_size = 2
    /\ Len(SplitWords(hp.text)) = 3
    /\ \E i \in 1..Len(hp.text) : hp.text[i] = NL
    /\ Len(hp.chunks) = 2

=============================================================================
